---- MODULE Spec2Model ----
(***************************************************************************)
(* Phase 4 of the FMCG analysis pipeline (new-launch identification,       *)
(* source-of-volume analysis, net portfolio impact) and its Phase 3.1      *)
(* (sales time-series forecasting) as a state machine.                     *)
(*                                                                         *)
(* Tables (pandas DataFrames) are sequences of records, one per row, in    *)
(* row order.  Dates are integers counting days of an abstract calendar    *)
(* whose months all have MonthLen days, so pd.DateOffset(months=m) adds    *)
(* m * MonthLen.  Revenues are integers (currency units); every ratio the  *)
(* code computes in floating point is kept here as an exact fraction in    *)
(* lowest terms, [num, den] with den > 0.  Columns that are only carried   *)
(* through (product_name, units_sold, transaction_id, channel, region)     *)
(* are left out of the rows.                                               *)
(***************************************************************************)
EXTENDS Integers, Sequences, FiniteSets, TLC

\* ------------------------------------------------------------------ bounds
\* Largest number of rows of the sales table.
MaxSales == 3
\* Days per month of the abstract calendar.
MonthLen == 2

\* ------------------------------------------------- constants of the program
\* NewLaunchIdentifier.execute(months=12, ...) as called by main.
LookbackMonths == 12
\* SOVAnalyzer.execute(window_months=6).
DefaultWindow == 6
\* window_months fixed inside _perform_significance_tests.
SigWindow == 6

\* ------------------------------------------------------------ input domains
\* Brands are "X" and "Y", categories (type) "C" and "D".
ProductIds == {1, 2, 3}

\* ------------------------------------------------------ exact ratio helpers
Abs(x) == IF x < 0 THEN -x ELSE x

RECURSIVE Gcd(_, _)
Gcd(a, b) == IF b = 0 THEN a ELSE Gcd(b, a % b)

\* n / d for d > 0, in lowest terms.
Ratio(n, d) ==
    LET g == Gcd(Abs(n), d)
    IN  [num |-> n \div g, den |-> d \div g]

RatOfInt(i) == [num |-> i, den |-> 1]
\* Sums and products cancel common factors before multiplying, which keeps
\* the intermediate integers small; the values are the exact ones.
RatAdd(a, b) ==
    LET g == Gcd(a.den, b.den)
    IN  Ratio(a.num * (b.den \div g) + b.num * (a.den \div g),
              (a.den \div g) * b.den)
RatMul(a, b) ==
    LET g1 == Gcd(Abs(a.num), b.den)
        g2 == Gcd(Abs(b.num), a.den)
    IN  Ratio((a.num \div g1) * (b.num \div g2),
              (a.den \div g2) * (b.den \div g1))
RatDivInt(a, k) == Ratio(a.num, a.den * k)
RatLess(a, b) == a.num * b.den < b.num * a.den
RatNeg(a) == [num |-> -a.num, den |-> a.den]
RatSub(a, b) == RatAdd(a, RatNeg(b))
RatAbs(a) == [num |-> Abs(a.num), den |-> a.den]
\* a / b for b > 0.
RatDiv(a, b) == RatMul(a, [num |-> b.den, den |-> b.num])

\* ------------------------------------------------------------ table helpers
DateOffset(d, m) == d + m * MonthLen

RECURSIVE SumRevenue(_)
SumRevenue(rows) ==
    IF rows = <<>> THEN 0 ELSE Head(rows).revenue + SumRevenue(Tail(rows))

RECURSIVE MaxDate(_)
MaxDate(rows) ==
    IF Len(rows) = 1 THEN rows[1].date
    ELSE LET m == MaxDate(Tail(rows))
         IN  IF rows[1].date > m THEN rows[1].date ELSE m

RowIds(rows) == {rows[i].product_id : i \in 1..Len(rows)}

Perms(n) == {f \in [1..n -> 1..n] : \A i, j \in 1..n : i # j => f[i] # f[j]}

\* DataFrame.sort_values(col, ascending=False), keys[i] being the value of
\* the column in row i: every row order that is descending in the key.  The
\* default sort kind is not stable, so the order of rows with equal keys is
\* left open.
SortValuesDesc(rows, keys) ==
    LET n == Len(rows)
        ok(f) == \A i \in 1..(n - 1) : ~RatLess(keys[f[i]], keys[f[i + 1]])
    IN  {[i \in 1..n |-> rows[f[i]]] : f \in {g \in Perms(n) : ok(g)}}

\* DataFrame.head(n) for n >= 0.
HeadRows(rows, n) == SubSeq(rows, 1, IF n < Len(rows) THEN n ELSE Len(rows))

ProductRow(prods, pid) ==
    LET i == CHOOSE k \in 1..Len(prods) : prods[k].product_id = pid
    IN  prods[i]

\* sales_df.merge(products_df, on='product_id', how='left')
Merge(sales, prods) ==
    [i \in 1..Len(sales) |->
        LET p == ProductRow(prods, sales[i].product_id)
        IN  [product_id |-> sales[i].product_id,
             date |-> sales[i].date,
             revenue |-> sales[i].revenue,
             brand |-> p.brand,
             type |-> p.type,
             launch_date |-> p.launch_date]]

\* --------------------------------------------------- NewLaunchIdentifier
\* Variant of NewLaunchRows whose cutoff comparison is strict.
NewLaunchRows_Strict(prods, sales, months) ==
    IF sales = <<>> THEN <<>>
    ELSE LET cutoff_date == DateOffset(MaxDate(sales), -months)
         IN  SelectSeq(prods, LAMBDA p : p.launch_date > cutoff_date)

\* _identify_new_launches before its sort: the products launched on or after
\* the cutoff, in product-table order.  An empty sales table has no maximum
\* date (NaT) and every comparison with it is false.
NewLaunchRows(prods, sales, months) ==
    IF sales = <<>> THEN <<>>
    ELSE LET cutoff_date == DateOffset(MaxDate(sales), -months)
         IN  SelectSeq(prods, LAMBDA p : p.launch_date >= cutoff_date)

\* The column of a table the sort reads, as ratios.
LaunchDateColumn(rows) == [i \in 1..Len(rows) |-> RatOfInt(rows[i].launch_date)]
ScoreColumn(rows) == [i \in 1..Len(rows) |-> rows[i].performance_score]
NetImpactColumn(rows) == [i \in 1..Len(rows) |-> RatOfInt(rows[i].net_impact)]

IdentifyNewLaunches(prods, sales, months) ==
    LET rows == NewLaunchRows(prods, sales, months)
    IN  SortValuesDesc(rows, LaunchDateColumn(rows))

PostLaunchSales(sales, product) ==
    SelectSeq(sales, LAMBDA r : r.product_id = product.product_id
                                /\ r.date >= product.launch_date)

\* Variant of GrowthRate that measures the change from the second window
\* to the first.
GrowthRate_Reversed(first_3m_revenue, next_3m_revenue) ==
    IF first_3m_revenue > 0
    THEN Ratio((first_3m_revenue - next_3m_revenue) * 100, first_3m_revenue)
    ELSE RatOfInt(0)

\* growth_rate: the change from the first to the next three months in
\* percent of the first, 0 when the first three months earned nothing.
GrowthRate(first_3m_revenue, next_3m_revenue) ==
    IF first_3m_revenue > 0
    THEN Ratio((next_3m_revenue - first_3m_revenue) * 100, first_3m_revenue)
    ELSE RatOfInt(0)

\* Variant of PerformanceScore that adds the percentage to the revenue
\* instead of scaling the revenue by it.
PerformanceScore_PercentAdded(total_revenue, growth_rate) ==
    RatAdd(RatOfInt(total_revenue), growth_rate)

\* performance_score: total_revenue * (1 + growth_rate / 100).
PerformanceScore(total_revenue, growth_rate) ==
    RatMul(RatOfInt(total_revenue),
           RatAdd(RatOfInt(1), RatDivInt(growth_rate, 100)))

\* One row of launch_performance for a candidate with post-launch sales.
PerformanceRow(sales, product) ==
    LET launch_date == product.launch_date
        post == PostLaunchSales(sales, product)
        total_revenue == SumRevenue(post)
        first_3m_end == DateOffset(launch_date, 3)
        next_3m_end == DateOffset(launch_date, 6)
        first_3m_revenue ==
            SumRevenue(SelectSeq(post, LAMBDA r : r.date >= launch_date
                                                  /\ r.date < first_3m_end))
        next_3m_revenue ==
            SumRevenue(SelectSeq(post, LAMBDA r : r.date >= first_3m_end
                                                  /\ r.date < next_3m_end))
        growth_rate == GrowthRate(first_3m_revenue, next_3m_revenue)
        total_market_revenue ==
            SumRevenue(SelectSeq(sales, LAMBDA r : r.date >= launch_date))
    IN  [product_id |-> product.product_id,
         brand |-> product.brand,
         type |-> product.type,
         launch_date |-> launch_date,
         total_revenue |-> total_revenue,
         growth_rate_pct |-> growth_rate,
         market_share_pct |->
             IF total_market_revenue > 0
             THEN Ratio(total_revenue * 100, total_market_revenue)
             ELSE RatOfInt(0),
         performance_score |-> PerformanceScore(total_revenue, growth_rate)]

\* Variant of ScoredRows that scores a candidate without post-launch sales
\* (on its zero revenue) instead of skipping it.
RECURSIVE ScoredRows_NoSkip(_, _)
ScoredRows_NoSkip(sales, launches) ==
    IF launches = <<>> THEN <<>>
    ELSE <<PerformanceRow(sales, Head(launches))>>
         \o ScoredRows_NoSkip(sales, Tail(launches))

\* The list launch_performance of _calculate_launch_performance before it is
\* turned into a table: candidates without post-launch sales are skipped.
RECURSIVE ScoredRows(_, _)
ScoredRows(sales, launches) ==
    IF launches = <<>> THEN <<>>
    ELSE LET rest == ScoredRows(sales, Tail(launches))
         IN  IF PostLaunchSales(sales, Head(launches)) = <<>>
             THEN rest
             ELSE <<PerformanceRow(sales, Head(launches))>> \o rest

\* The sort that ends _calculate_launch_performance.
SortByScore(rows) == SortValuesDesc(rows, ScoreColumn(rows))

\* DataFrame.tail(n) for n >= 0.
TailRows(rows, n) ==
    SubSeq(rows, IF n < Len(rows) THEN Len(rows) - n + 1 ELSE 1, Len(rows))

\* Variant of SelectTopLaunches that takes the last rows instead of the first.
SelectTopLaunches_Tail(launch_performance, top_n) ==
    IF Len(launch_performance) = 0 THEN <<>>
    ELSE TailRows(launch_performance, top_n)

\* _select_top_launches
SelectTopLaunches(launch_performance, top_n) ==
    IF Len(launch_performance) = 0 THEN <<>>
    ELSE HeadRows(launch_performance, top_n)

\* _identify_cannibalization_targets: for each top launch the earlier
\* products of the same type and brand; launches without one get no entry.
TargetsOf(prods, launch) ==
    SelectSeq(prods, LAMBDA p : p.type = launch.type
                                /\ p.brand = launch.brand
                                /\ p.launch_date < launch.launch_date)

CannibalizationTargets(prods, top) ==
    LET withTargets == {i \in 1..Len(top) : TargetsOf(prods, top[i]) # <<>>}
    IN  {[new_product_id |-> top[i].product_id,
          targets |-> [k \in 1..Len(TargetsOf(prods, top[i])) |->
                          TargetsOf(prods, top[i])[k].product_id]]
         : i \in withTargets}

\* ------------------------------------------------------------ SOVAnalyzer
\* The ids of a set in ascending order (the order of a groupby index).
RECURSIVE SortedIds(_)
SortedIds(S) ==
    IF S = {} THEN <<>>
    ELSE LET m == CHOOSE x \in S : \A y \in S : x <= y
         IN  <<m>> \o SortedIds(S \ {m})

\* Variant of InWindow whose end date is inclusive.
InWindow_Inclusive(rows, start, end) ==
    SelectSeq(rows, LAMBDA r : r.date >= start /\ r.date <= end)

\* rows[(rows.date >= start) & (rows.date < end)]
InWindow(rows, start, end) ==
    SelectSeq(rows, LAMBDA r : r.date >= start /\ r.date < end)

\* rows.groupby('product_id')['revenue'].sum(): one entry per product with
\* at least one row.
GroupRevenue(rows) ==
    [pid \in RowIds(rows) |->
        SumRevenue(SelectSeq(rows, LAMBDA r : r.product_id = pid))]

\* Variant of CannibalizedProducts that reads a sibling without post-window
\* sales as having post-window revenue 0.
RECURSIVE CannibalizedProducts_PostDefault(_, _, _)
CannibalizedProducts_PostDefault(ids, pre_revenue, post_revenue) ==
    IF ids = <<>> THEN <<>>
    ELSE LET product_id == Head(ids)
             rest == CannibalizedProducts_PostDefault(Tail(ids), pre_revenue,
                                                      post_revenue)
             post == IF product_id \in DOMAIN post_revenue
                     THEN post_revenue[product_id] ELSE 0
             revenue_change == post - pre_revenue[product_id]
         IN  IF revenue_change < 0
             THEN <<[product_id |-> product_id,
                     revenue_loss |-> Abs(revenue_change),
                     pct_change |->
                         IF pre_revenue[product_id] > 0
                         THEN Ratio(revenue_change * 100, pre_revenue[product_id])
                         ELSE RatOfInt(0)]>> \o rest
             ELSE rest

\* The cannibalization loop over pre_revenue.index.
RECURSIVE CannibalizedProducts(_, _, _)
CannibalizedProducts(ids, pre_revenue, post_revenue) ==
    IF ids = <<>> THEN <<>>
    ELSE LET product_id == Head(ids)
             rest == CannibalizedProducts(Tail(ids), pre_revenue, post_revenue)
         IN  IF product_id \in DOMAIN post_revenue
             THEN LET revenue_change ==
                          post_revenue[product_id] - pre_revenue[product_id]
                  IN  IF revenue_change < 0
                      THEN <<[product_id |-> product_id,
                              revenue_loss |-> Abs(revenue_change),
                              pct_change |->
                                  IF pre_revenue[product_id] > 0
                                  THEN Ratio(revenue_change * 100,
                                             pre_revenue[product_id])
                                  ELSE RatOfInt(0)]>> \o rest
                      ELSE rest
             ELSE rest

RECURSIVE SumLoss(_)
SumLoss(targets) ==
    IF targets = <<>> THEN 0
    ELSE Head(targets).revenue_loss + SumLoss(Tail(targets))

\* Variant of CompetitorLoss without the floor at zero.
CompetitorLoss_NoFloor(pre_competitor, post_competitor) ==
    pre_competitor - post_competitor

CompetitorLoss(pre_competitor, post_competitor) ==
    IF pre_competitor > post_competitor
    THEN pre_competitor - post_competitor
    ELSE 0

\* Variant of SovPct that leaves out the factor 100 and yields a fraction.
SovPct_Fraction(part, total_sov) ==
    IF total_sov > 0 THEN Ratio(part, total_sov) ELSE RatOfInt(0)

\* A component of the breakdown in percent of total_sov, 0 without total_sov.
SovPct(part, total_sov) ==
    IF total_sov > 0 THEN Ratio(part * 100, total_sov) ELSE RatOfInt(0)

\* Variant of CompetitorRows that forgets the brand filter.
CompetitorRows_AllBrands(sales, launch) ==
    SelectSeq(sales, LAMBDA r : r.type = launch.type)

\* The rows of the products of the launch's category and another brand.
CompetitorRows(sales, launch) ==
    SelectSeq(sales, LAMBDA r : r.type = launch.type
                                /\ r.brand # launch.brand)

\* Variant of MarketExpansion that floors the difference at zero, as
\* competitor_loss is floored.
MarketExpansion_Floored(post_market_total, pre_market_total, new_product_revenue) ==
    IF post_market_total - pre_market_total - new_product_revenue > 0
    THEN post_market_total - pre_market_total - new_product_revenue
    ELSE 0

\* market_expansion: the growth of the category total between the windows
\* less the revenue of the new product; the difference is kept as it is.
MarketExpansion(post_market_total, pre_market_total, new_product_revenue) ==
    post_market_total - pre_market_total - new_product_revenue

\* The body of the per-launch loop of _analyze_sov_by_launch.
SovRecord(sales, launch, window_months) ==
    LET new_product_id == launch.product_id
        launch_date == launch.launch_date
        pre_start == DateOffset(launch_date, -window_months)
        pre_end == launch_date
        post_start == launch_date
        post_end == DateOffset(launch_date, window_months)
        new_product_revenue ==
            SumRevenue(InWindow(
                SelectSeq(sales, LAMBDA r : r.product_id = new_product_id),
                post_start, post_end))
        existing_products ==
            SelectSeq(sales, LAMBDA r : r.type = launch.type
                                        /\ r.brand = launch.brand
                                        /\ r.product_id # new_product_id)
        pre_revenue == GroupRevenue(InWindow(existing_products, pre_start, pre_end))
        post_revenue == GroupRevenue(InWindow(existing_products, post_start, post_end))
        cannibalized_products ==
            CannibalizedProducts(SortedIds(DOMAIN pre_revenue),
                                 pre_revenue, post_revenue)
        cannibalized_revenue == SumLoss(cannibalized_products)
        competitor_products == CompetitorRows(sales, launch)
        pre_competitor == SumRevenue(InWindow(competitor_products, pre_start, pre_end))
        post_competitor == SumRevenue(InWindow(competitor_products, post_start, post_end))
        competitor_loss == CompetitorLoss(pre_competitor, post_competitor)
        market == SelectSeq(sales, LAMBDA r : r.type = launch.type)
        pre_market_total == SumRevenue(InWindow(market, pre_start, pre_end))
        post_market_total == SumRevenue(InWindow(market, post_start, post_end))
        market_expansion ==
            MarketExpansion(post_market_total, pre_market_total, new_product_revenue)
        total_sov == new_product_revenue
    IN  [new_product_id |-> new_product_id,
         launch_date |-> launch_date,
         new_product_revenue |-> new_product_revenue,
         cannibalized_revenue |-> cannibalized_revenue,
         cannibalized_products |-> cannibalized_products,
         competitor_loss |-> competitor_loss,
         market_expansion |-> market_expansion,
         sov_breakdown |->
             [cannibalization_pct |-> SovPct(cannibalized_revenue, total_sov),
              competitor_pct |-> SovPct(competitor_loss, total_sov),
              expansion_pct |-> SovPct(market_expansion, total_sov)]]

LaunchIndex(launches, pid) ==
    \* the last row with this id: a later row overwrites the dict entry
    CHOOSE i \in 1..Len(launches) :
        /\ launches[i].product_id = pid
        /\ \A j \in (i + 1)..Len(launches) : launches[j].product_id # pid

\* Variant of AnalyzeSovByLaunch that records nothing for a launch without
\* revenue in its post window.
AnalyzeSovByLaunch_SkipsEmpty(sales, launches, window_months) ==
    [pid \in {p \in RowIds(launches) :
                 SovRecord(sales, launches[LaunchIndex(launches, p)],
                           window_months).new_product_revenue > 0} |->
        SovRecord(sales, launches[LaunchIndex(launches, pid)], window_months)]

\* _analyze_sov_by_launch: the dict keyed by product_id.
AnalyzeSovByLaunch(sales, launches, window_months) ==
    [pid \in RowIds(launches) |->
        SovRecord(sales, launches[LaunchIndex(launches, pid)], window_months)]

\* The keys of sov_by_launch in insertion order (launch order, first
\* occurrence of each id).
SovKeyOrder(launches) ==
    LET firsts == {i \in 1..Len(launches) :
                      \A j \in 1..(i - 1) :
                          launches[j].product_id # launches[i].product_id}
        idx == SortedIds(firsts)
    IN  [k \in 1..Len(idx) |-> launches[idx[k]].product_id]

\* _calculate_sov_breakdown: one row per record, in dict order.
SovBreakdown(sov_by_launch, order) ==
    [k \in 1..Len(order) |->
        LET sov_data == sov_by_launch[order[k]]
        IN  [product_id |-> order[k],
             total_revenue |-> sov_data.new_product_revenue,
             cannibalization_pct |-> sov_data.sov_breakdown.cannibalization_pct,
             competitor_pct |-> sov_data.sov_breakdown.competitor_pct,
             expansion_pct |-> sov_data.sov_breakdown.expansion_pct,
             cannibalization_revenue |-> sov_data.cannibalized_revenue,
             competitor_revenue |-> sov_data.competitor_loss,
             expansion_revenue |-> sov_data.market_expansion]]

Month(d) == d \div MonthLen

\* len(rows.groupby(date.dt.to_period('M'))): the months that have a row.
MonthCount(rows) == Cardinality({Month(rows[i].date) : i \in 1..Len(rows)})

\* The tests recorded for one launch by _perform_significance_tests.  The
\* t statistic and the p-value of scipy.stats.ttest_ind are real numbers and
\* are not represented; an entry stands for one test that was run.
RECURSIVE TestResults(_, _, _)
TestResults(sales, launch_date, targets) ==
    IF targets = <<>> THEN <<>>
    ELSE LET target == Head(targets)
             pre_start == DateOffset(launch_date, -SigWindow)
             post_end == DateOffset(launch_date, SigWindow)
             target_sales ==
                 SelectSeq(sales, LAMBDA r : r.product_id = target.product_id)
             pre_period == MonthCount(InWindow(target_sales, pre_start, launch_date))
             post_period == MonthCount(InWindow(target_sales, launch_date, post_end))
             rest == TestResults(sales, launch_date, Tail(targets))
         IN  IF pre_period > 1 /\ post_period > 1
             THEN <<[target_product_id |-> target.product_id,
                     revenue_loss |-> target.revenue_loss,
                     pct_change |-> target.pct_change]>> \o rest
             ELSE rest

SignificanceTests(sales, sov_by_launch) ==
    [pid \in DOMAIN sov_by_launch |->
        TestResults(sales, sov_by_launch[pid].launch_date,
                    sov_by_launch[pid].cannibalized_products)]

\* Variant of EmptySovResults that returns no significance_tests dict.
EmptySovResults_NoTests ==
    [sov_by_launch |-> <<>>, sov_breakdown |-> <<>>, significance_tests |-> <<"none">>]

\* What execute returns when there is no launch to analyse.
EmptySovResults ==
    [sov_by_launch |-> <<>>, sov_breakdown |-> <<>>, significance_tests |-> <<>>]

\* ------------------------------------------------ PortfolioImpactAnalyzer
\* Variant of LaunchType whose 10% threshold is inclusive.
LaunchType_Inclusive(net_impact, new_product_revenue) ==
    IF net_impact > 0 THEN "Additive"
    ELSE IF net_impact * 10 <= -new_product_revenue THEN "Substitutive"
    ELSE "Neutral"

\* The classification of a launch (the if / elif / else of the loop); the
\* test net_impact < -new_product_revenue * 0.1 is taken in tenths.
LaunchType(net_impact, new_product_revenue) ==
    IF net_impact > 0 THEN "Additive"
    ELSE IF net_impact * 10 < -new_product_revenue THEN "Substitutive"
    ELSE "Neutral"

\* Variant of Roi that yields 0, like the other guarded ratios, when nothing
\* was cannibalized.
Roi_ZeroDefault(net_impact, lost_revenue) ==
    IF lost_revenue > 0
    THEN [inf |-> FALSE, value |-> Ratio(net_impact * 100, lost_revenue)]
    ELSE [inf |-> FALSE, value |-> RatOfInt(0)]

\* The roi column: a ratio, or the float('inf') sentinel.
Roi(net_impact, lost_revenue) ==
    IF lost_revenue > 0
    THEN [inf |-> FALSE, value |-> Ratio(net_impact * 100, lost_revenue)]
    ELSE [inf |-> TRUE, value |-> RatOfInt(0)]

\* Variant of NetImpact that adds the lost revenue.
NetImpact_Added(new_product_revenue, lost_revenue) ==
    new_product_revenue + lost_revenue

NetImpact(new_product_revenue, lost_revenue) ==
    new_product_revenue - lost_revenue

NetImpactPct(net_impact, new_revenue) ==
    IF new_revenue > 0 THEN Ratio(net_impact * 100, new_revenue) ELSE RatOfInt(0)

\* One row of impact_results for a launch that has an SOV record.
ImpactRow(sales, launch, sov_data, window_months) ==
    LET launch_date == launch.launch_date
        pre_start == DateOffset(launch_date, -window_months)
        post_end == DateOffset(launch_date, window_months)
        new_product_revenue == sov_data.new_product_revenue
        lost_revenue == sov_data.cannibalized_revenue
        net_impact == NetImpact(new_product_revenue, lost_revenue)
        portfolio == SelectSeq(sales, LAMBDA r : r.type = launch.type
                                                 /\ r.brand = launch.brand)
        pre_portfolio_revenue == SumRevenue(InWindow(portfolio, pre_start, launch_date))
        post_portfolio_revenue == SumRevenue(InWindow(portfolio, launch_date, post_end))
    IN  [product_id |-> launch.product_id,
         launch_date |-> launch_date,
         new_product_revenue |-> new_product_revenue,
         lost_revenue |-> lost_revenue,
         net_impact |-> net_impact,
         net_impact_pct |-> NetImpactPct(net_impact, new_product_revenue),
         portfolio_growth_pct |->
             IF pre_portfolio_revenue > 0
             THEN Ratio((post_portfolio_revenue - pre_portfolio_revenue) * 100,
                        pre_portfolio_revenue)
             ELSE RatOfInt(0),
         launch_type |-> LaunchType(net_impact, new_product_revenue),
         roi |-> Roi(net_impact, lost_revenue)]

\* The list impact_results of _calculate_portfolio_impact: launches without
\* an SOV record are skipped.
RECURSIVE ImpactRows(_, _, _, _)
ImpactRows(sales, launches, sov_by_launch, window_months) ==
    IF launches = <<>> THEN <<>>
    ELSE LET launch == Head(launches)
             rest == ImpactRows(sales, Tail(launches), sov_by_launch, window_months)
         IN  IF launch.product_id \notin DOMAIN sov_by_launch
             THEN rest
             ELSE <<ImpactRow(sales, launch, sov_by_launch[launch.product_id],
                              window_months)>> \o rest

\* The sort that ends each of the three impact tables.
SortByNetImpact(rows) == SortValuesDesc(rows, NetImpactColumn(rows))

\* Series.unique(): the values in order of first appearance.
RECURSIVE UniqueSeq(_)
UniqueSeq(vals) ==
    IF vals = <<>> THEN <<>>
    ELSE LET front == UniqueSeq(SubSeq(vals, 1, Len(vals) - 1))
             last == vals[Len(vals)]
         IN  IF \E i \in 1..Len(front) : front[i] = last
             THEN front
             ELSE Append(front, last)

\* Variant of GroupTotals that keeps the revenues of the last launch read
\* instead of accumulating them.
RECURSIVE GroupTotals_Overwrite(_, _)
GroupTotals_Overwrite(group_launches, sov_by_launch) ==
    IF group_launches = <<>> THEN [new |-> 0, lost |-> 0]
    ELSE LET front == GroupTotals_Overwrite(
                          SubSeq(group_launches, 1, Len(group_launches) - 1),
                          sov_by_launch)
             product_id == group_launches[Len(group_launches)].product_id
         IN  IF product_id \in DOMAIN sov_by_launch
             THEN [new |-> sov_by_launch[product_id].new_product_revenue,
                   lost |-> sov_by_launch[product_id].cannibalized_revenue]
             ELSE front

\* The two running totals of a group of launches: launches without an SOV
\* record add nothing.
RECURSIVE GroupTotals(_, _)
GroupTotals(group_launches, sov_by_launch) ==
    IF group_launches = <<>> THEN [new |-> 0, lost |-> 0]
    ELSE LET rest == GroupTotals(Tail(group_launches), sov_by_launch)
             product_id == Head(group_launches).product_id
         IN  IF product_id \in DOMAIN sov_by_launch
             THEN [new |-> rest.new + sov_by_launch[product_id].new_product_revenue,
                   lost |-> rest.lost + sov_by_launch[product_id].cannibalized_revenue]
             ELSE rest

\* Variant of GroupRow that counts only the launches that have an SOV
\* record.
GroupRow_CountsRecorded(key, group_launches, sov_by_launch) ==
    LET t == GroupTotals(group_launches, sov_by_launch)
        net_impact == NetImpact(t.new, t.lost)
    IN  [key |-> key,
         num_launches |->
             Len(SelectSeq(group_launches,
                           LAMBDA l : l.product_id \in DOMAIN sov_by_launch)),
         total_new_revenue |-> t.new,
         total_lost_revenue |-> t.lost,
         net_impact |-> net_impact,
         net_impact_pct |-> NetImpactPct(net_impact, t.new)]

\* One row of the category or brand table.
GroupRow(key, group_launches, sov_by_launch) ==
    LET t == GroupTotals(group_launches, sov_by_launch)
        net_impact == NetImpact(t.new, t.lost)
    IN  [key |-> key,
         num_launches |-> Len(group_launches),
         total_new_revenue |-> t.new,
         total_lost_revenue |-> t.lost,
         net_impact |-> net_impact,
         net_impact_pct |-> NetImpactPct(net_impact, t.new)]

\* The list category_impacts of _calculate_category_impact, before the sort.
CategoryRows(launches, sov_by_launch) ==
    LET cats == UniqueSeq([i \in 1..Len(launches) |-> launches[i].type])
    IN  [k \in 1..Len(cats) |->
            GroupRow(cats[k],
                     SelectSeq(launches, LAMBDA l : l.type = cats[k]),
                     sov_by_launch)]

\* The list brand_impacts of _calculate_brand_impact, before the sort.
BrandRows(launches, sov_by_launch) ==
    LET brands == UniqueSeq([i \in 1..Len(launches) |-> launches[i].brand])
    IN  [k \in 1..Len(brands) |->
            GroupRow(brands[k],
                     SelectSeq(launches, LAMBDA l : l.brand = brands[k]),
                     sov_by_launch)]

PerformanceRating(net_impact) ==
    IF net_impact > 0 THEN "Excellent"
    ELSE IF net_impact < -1000000 THEN "Poor"
    ELSE "Moderate"

\* _classify_launches: a copy of the impact table with the rating added.
ClassifyLaunches(portfolio_impact) ==
    [i \in 1..Len(portfolio_impact) |->
        LET row == portfolio_impact[i]
        IN  [product_id |-> row.product_id,
             launch_date |-> row.launch_date,
             new_product_revenue |-> row.new_product_revenue,
             lost_revenue |-> row.lost_revenue,
             net_impact |-> row.net_impact,
             launch_type |-> row.launch_type,
             roi |-> row.roi,
             performance_rating |-> PerformanceRating(row.net_impact)]]

\* --------------------------------------------------- TimeSeriesForecaster
\* A monthly series is a sequence of [month, y] in month order; a forecast is
\* a sequence of [month, yhat], month being the month the value was
\* predicted for and yhat an exact ratio.  Of the metrics, mae and mape are
\* kept; mse and rmse (a square and its root) are not represented, nor are
\* the fitted model object, is_stationary and the confidence bounds.

\* The 0.001 added to a MAPE before it is inverted.
Epsilon == [num |-> 1, den |-> 1000]

\* _prepare_time_series: the revenue per month of the rows of the category
\* (of all rows when no category is given), in month order.
PrepareTimeSeries(sales, category) ==
    LET df_filtered ==
            IF category # "" THEN SelectSeq(sales, LAMBDA r : r.type = category)
            ELSE sales
        months == SortedIds({df_filtered[i].date \div MonthLen
                             : i \in 1..Len(df_filtered)})
    IN  [k \in 1..Len(months) |->
            [month |-> months[k],
             y |-> SumRevenue(SelectSeq(df_filtered,
                       LAMBDA r : r.date \div MonthLen = months[k]))]]

\* train_size = int(len(ts_data) * 0.8)
TrainSize(n) == (n * 8) \div 10

RECURSIVE RatSum(_)
RatSum(xs) ==
    IF xs = <<>> THEN RatOfInt(0) ELSE RatAdd(Head(xs), RatSum(Tail(xs)))

\* np.mean of a non-empty sequence of ratios.
Mean(xs) == RatDivInt(RatSum(xs), Len(xs))

\* float('nan'): the MAPE of a forecast that shares no index label with the
\* test series.
NaN == [num |-> 0, den |-> 0]

\* mean_absolute_error(actual, predicted): sklearn pairs the two position by
\* position, whatever their labels.
MeanAbsoluteError(actual, predicted) ==
    Mean([k \in 1..Len(actual) |->
             RatAbs(RatSub(RatOfInt(actual[k].y), predicted[k].yhat))])

\* np.mean(np.abs((test - predicted) / test)) * 100 with predicted a bare
\* array (Prophet's test_pred, the two ensemble arrays): position by position.
MapeByPosition(actual, predicted) ==
    RatMul(Mean([k \in 1..Len(actual) |->
                    RatDivInt(RatAbs(RatSub(RatOfInt(actual[k].y),
                                            predicted[k].yhat)),
                              actual[k].y)]),
           RatOfInt(100))

\* The same expression with predicted a Series (the SARIMA forecast): pandas
\* pairs test and predicted by index label, a label that only one of them has
\* gives NaN, and the mean skips the NaNs; with no shared label the mean is
\* NaN.  A date label is never equal to an integer position label.
MapeByLabel(actual, predicted, index) ==
    LET shared == IF index = "dates"
                  THEN {j \in 1..Len(actual) :
                           \E k \in 1..Len(predicted) :
                               predicted[k].month = actual[j].month}
                  ELSE {}
        rows == SortedIds(shared)
        at(j) == predicted[CHOOSE k \in 1..Len(predicted) :
                               predicted[k].month = actual[j].month]
    IN  IF shared = {} THEN NaN
        ELSE RatMul(Mean([i \in 1..Len(rows) |->
                             RatDivInt(RatAbs(RatSub(RatOfInt(actual[rows[i]].y),
                                                     at(rows[i]).yhat)),
                                       actual[rows[i]].y)]),
                    RatOfInt(100))

\* The metrics of _prophet_forecast and of each ensemble: mae and mape,
\* both position by position.
ForecastMetrics(actual, predicted) ==
    [mae |-> MeanAbsoluteError(actual, predicted),
     mape |-> MapeByPosition(actual, predicted)]

\* The metrics of _sarima_forecast: mae position by position, mape label by
\* label.
SarimaMetrics(actual, predicted, index) ==
    [mae |-> MeanAbsoluteError(actual, predicted),
     mape |-> MapeByLabel(actual, predicted, index)]

ZeroMetrics == [mae |-> RatOfInt(0), mape |-> RatOfInt(0)]

\* A key of self.results that has not been set, and the empty dict {} as
\* the value of a key that has been set.  index tells how the forecasts of a
\* result are labelled: "dates" when the month field of an entry is the
\* month the value stands for, "positions" when it is an integer row
\* position (a series without a date index).
AbsentResult ==
    [present |-> FALSE, empty |-> TRUE, index |-> "", forecast |-> <<>>,
     future_forecast |-> <<>>, metrics |-> ZeroMetrics]
EmptyResult == [AbsentResult EXCEPT !.present = TRUE]

\* fitted_model.forecast(steps=n): the values for the n months that follow
\* the last month the model was fitted on, labelled with those months.
StepsAhead(fitted_on, yhat, n) ==
    [k \in 1..n |-> [month |-> fitted_on[Len(fitted_on)].month + k,
                     yhat |-> RatOfInt(yhat[k])]]

\* fitted_model.forecast(steps=n) as the library labels it: with the months
\* that follow train, or, when it attaches no frequency to the training
\* index, with the row positions that follow those of train (counted from 0).
SarimaSteps(train, outcome, n) ==
    IF outcome.index = "dates" THEN StepsAhead(train, outcome.yhat, n)
    ELSE [k \in 1..n |-> [month |-> Len(train) + k - 1,
                          yhat |-> RatOfInt(outcome.yhat[k])]]

\* Variant of SarimaForecast that answers a failed fit with a naive forecast
\* (the first test value repeated) instead of the empty result.
SarimaForecast_NaiveFallback(train, test, forecast_horizon, outcome) ==
    IF outcome.raised
    THEN LET forecast == [k \in 1..Len(test) |->
                             [month |-> test[k].month, yhat |-> RatOfInt(test[1].y)]]
         IN  [present |-> TRUE, empty |-> FALSE, index |-> "dates",
              forecast |-> forecast,
              future_forecast |-> <<>>,
              metrics |-> SarimaMetrics(test, forecast, "dates")]
    ELSE LET forecast == SarimaSteps(train, outcome, Len(test))
         IN  [present |-> TRUE, empty |-> FALSE, index |-> outcome.index,
              forecast |-> forecast,
              future_forecast |-> SarimaSteps(train, outcome, forecast_horizon),
              metrics |-> SarimaMetrics(test, forecast, outcome.index)]

\* The body of _sarima_forecast: the model is fitted on train; outcome is
\* what the library did, an exception somewhere in the try block or the
\* predictions yhat[k] for k months after the end of train and the kind of
\* index it puts on them.  Both forecasts are the series the library
\* returns.  (With forecast_horizon = 0 the library is asked for 0 steps; it
\* may raise, or return the empty series.)
SarimaForecast(train, test, forecast_horizon, outcome) ==
    IF outcome.raised THEN EmptyResult
    ELSE LET forecast == SarimaSteps(train, outcome, Len(test))
         IN  [present |-> TRUE, empty |-> FALSE, index |-> outcome.index,
              forecast |-> forecast,
              future_forecast |-> SarimaSteps(train, outcome, forecast_horizon),
              metrics |-> SarimaMetrics(test, forecast, outcome.index)]

\* forecast['yhat'].iloc[-n:] of model.predict over
\* make_future_dataframe(periods=n): the frame has a row per training month
\* (the fitted values) followed by n future months.  For n > 0 the slice is
\* the n future rows; for n = 0 it is iloc[-0:], every row of the frame, that
\* is the fitted value of each training month.
LastRows(train, outcome, n) ==
    IF n = 0
    THEN [k \in 1..Len(train) |-> [month |-> train[k].month,
                                   yhat |-> RatOfInt(outcome.fitted[k])]]
    ELSE StepsAhead(train, outcome.yhat, n)

\* The body of _prophet_forecast: outcome is what the library did, an
\* exception in the try block, or the predictions yhat[k] for k months after
\* the end of train and the fitted values of the training months.  The
\* predictions for the test period are stored as
\* pd.Series(test_pred, index=test.index), so they carry the months of the
\* test rows; future_forecast is the bare slice of the prediction frame.
ProphetForecast(train, test, forecast_horizon, outcome) ==
    IF outcome.raised THEN EmptyResult
    ELSE LET test_pred == LastRows(train, outcome, Len(test))
             forecast == [k \in 1..Len(test) |->
                             [month |-> test[k].month, yhat |-> test_pred[k].yhat]]
         IN  [present |-> TRUE, empty |-> FALSE, index |-> "dates",
              forecast |-> forecast,
              future_forecast |-> LastRows(train, outcome, forecast_horizon),
              metrics |-> ForecastMetrics(test, forecast)]

\* 1 / (mape + 0.001)
\* Variant of InverseMapeWeight that weighs a model by its error instead of
\* the inverse of it.
InverseMapeWeight_Direct(mape) == RatAdd(mape, Epsilon)

\* 1 / (mape + 0.001)
InverseMapeWeight(mape) == RatDiv(RatOfInt(1), RatAdd(mape, Epsilon))

\* Variant of TotalWeight that forgets the second model.
TotalWeight_SarimaOnly(sarima_weight, prophet_weight) == sarima_weight

\* total_weight = sarima_weight + prophet_weight
TotalWeight(sarima_weight, prophet_weight) == RatAdd(sarima_weight, prophet_weight)

\* The two factors sarima_weight / total_weight and
\* prophet_weight / total_weight of the weighted ensemble.
NormalizedWeights(sarima_mape, prophet_mape) ==
    LET sarima_weight == InverseMapeWeight(sarima_mape)
        prophet_weight == InverseMapeWeight(prophet_mape)
        total_weight == TotalWeight(sarima_weight, prophet_weight)
    IN  [sarima |-> RatDiv(sarima_weight, total_weight),
         prophet |-> RatDiv(prophet_weight, total_weight)]

AbsentEnsemble ==
    [present |-> FALSE, empty |-> TRUE, simple_ensemble |-> <<>>,
     weighted_ensemble |-> <<>>,
     metrics |-> [simple |-> ZeroMetrics, weighted |-> ZeroMetrics]]
EmptyEnsemble == [AbsentEnsemble EXCEPT !.present = TRUE]

\* _create_ensemble_forecast past its guard with a MAPE of NaN: the weights
\* and every value of weighted_ensemble are NaN, and
\* mean_squared_error(test, weighted_ensemble) rejects its input with a
\* ValueError (sklearn validates that y_pred is finite), which nothing
\* catches.
EnsembleRaises(sarima_results, prophet_results) ==
    /\ ~sarima_results.empty
    /\ ~prophet_results.empty
    /\ NaN \in {sarima_results.metrics.mape, prophet_results.metrics.mape}

\* _create_ensemble_forecast past its guard, with two finite MAPEs.
CombineForecasts(sarima_results, prophet_results, test) ==
    LET s == sarima_results.forecast
        p == prophet_results.forecast
        w == NormalizedWeights(sarima_results.metrics.mape,
                               prophet_results.metrics.mape)
        ensemble_forecast ==
            [k \in 1..Len(test) |->
                [month |-> test[k].month,
                 yhat |-> RatDivInt(RatAdd(s[k].yhat, p[k].yhat), 2)]]
        weighted_ensemble ==
            [k \in 1..Len(test) |->
                [month |-> test[k].month,
                 yhat |-> RatAdd(RatMul(s[k].yhat, w.sarima),
                                 RatMul(p[k].yhat, w.prophet))]]
    IN  [present |-> TRUE, empty |-> FALSE,
         simple_ensemble |-> ensemble_forecast,
         weighted_ensemble |-> weighted_ensemble,
         metrics |-> [simple |-> ForecastMetrics(test, ensemble_forecast),
                      weighted |-> ForecastMetrics(test, weighted_ensemble)]]

\* _create_ensemble_forecast
CreateEnsembleForecast(sarima_results, prophet_results, test) ==
    IF sarima_results.empty \/ prophet_results.empty THEN EmptyEnsemble
    ELSE CombineForecasts(sarima_results, prophet_results, test)

\* Variant of EnsembleWanted that also asks for two non-empty results.
EnsembleWanted_NonEmpty(res) ==
    /\ res.sarima.present /\ res.prophet.present
    /\ ~res.sarima.empty /\ ~res.prophet.empty

\* if 'sarima' in self.results and 'prophet' in self.results
EnsembleWanted(res) == res.sarima.present /\ res.prophet.present

\* The (name, MAPE) list of _print_summary, in the order it is built.
AllMape(res) ==
    (IF res.sarima.present /\ ~res.sarima.empty
     THEN <<[name |-> "SARIMA", mape |-> res.sarima.metrics.mape]>> ELSE <<>>)
    \o (IF res.prophet.present /\ ~res.prophet.empty
        THEN <<[name |-> "Prophet", mape |-> res.prophet.metrics.mape]>> ELSE <<>>)
    \o (IF res.ensemble.present /\ ~res.ensemble.empty
        THEN <<[name |-> "Ensemble", mape |-> res.ensemble.metrics.weighted.mape]>>
        ELSE <<>>)

\* min(all_mape, key=...): the first entry no other entry is below.
MinByMape(all_mape) ==
    LET i == CHOOSE k \in 1..Len(all_mape) :
                 /\ \A j \in 1..Len(all_mape) :
                        ~RatLess(all_mape[j].mape, all_mape[k].mape)
                 /\ \A j \in 1..(k - 1) :
                        RatLess(all_mape[k].mape, all_mape[j].mape)
    IN  all_mape[i]

\* The model the "Best Model" line of _print_summary names, "" when the
\* line is not printed.
ForecasterBestModel(res) ==
    IF res.ensemble.present /\ ~res.ensemble.empty
    THEN MinByMape(AllMape(res)).name
    ELSE ""

\* The model the "Best Model" line of main's print_summary names, "" when
\* the forecasting block is not printed.
MainBestModel(res) ==
    IF res.ensemble.present /\ ~res.ensemble.empty
    THEN "Ensemble (Weighted)"
    ELSE ""

\* ---------------------------------------------------------------- state
VARIABLES
    products,        \* the product master table
    df,              \* the integrated sales table
    launches,        \* the launch table handed to SOVAnalyzer / PortfolioImpactAnalyzer
    window_months,   \* the window_months argument of the two execute calls
    nl_results,      \* NewLaunchIdentifier.results
    sov_results,     \* what SOVAnalyzer.execute returns
    impact_results,  \* PortfolioImpactAnalyzer.results
    pc,              \* the statement the run is at
    err,             \* the exception that ended the run, "" if none
    forecast_horizon,  \* the forecast_horizon argument of TimeSeriesForecaster.execute
    category_arg,        \* its category argument, "" for None
    available,       \* STATSMODELS_AVAILABLE and PROPHET_AVAILABLE
    ts_data,         \* the monthly series of execute
    train,           \* its training prefix
    test,            \* its held-out suffix
    forecast_results,  \* TimeSeriesForecaster.results
    best_model,      \* the model each of the two summaries names as best
    warned           \* the steps whose failure warning was printed

forecast_vars == <<forecast_horizon, category_arg, available, ts_data, train, test,
                   forecast_results, best_model, warned>>

vars == <<products, df, launches, window_months, nl_results, sov_results,
          impact_results, pc, err, forecast_vars>>

inputs == <<products, df, window_months>>

\* TimeSeriesForecaster.execute(forecast_horizon=12) as called by main.
DefaultHorizon == 12

\* self.results = {} of TimeSeriesForecaster.__init__
NoForecastResults ==
    [decomposition |-> [present |-> FALSE, empty |-> TRUE],
     sarima |-> AbsentResult,
     prophet |-> AbsentResult,
     ensemble |-> AbsentEnsemble]

NoBestModel == [forecaster |-> "", main |-> ""]

\* TimeSeriesForecaster(integrated_df): a forecaster that has been built and
\* not yet executed.
ForecasterBuilt ==
    /\ ts_data = <<>>
    /\ train = <<>>
    /\ test = <<>>
    /\ forecast_results = NoForecastResults
    /\ best_model = NoBestModel
    /\ warned = {}

\* The forecaster's variables in the run of a Phase 4 class called alone
\* (SOVAnalyzer, PortfolioImpactAnalyzer, NewLaunchIdentifier): no forecaster
\* is executed in such a run, the variables keep these values throughout.
ForecastIdle ==
    /\ forecast_horizon = DefaultHorizon
    /\ category_arg = ""
    /\ available = [statsmodels |-> FALSE, prophet |-> FALSE]
    /\ ForecasterBuilt

NoNlResults ==
    [new_launches |-> <<>>, launch_performance |-> <<>>,
     top_launches |-> <<>>, cannibalization_targets |-> {}, top_n |-> -1]

NoSovResults == [none |-> TRUE]

NoImpactResults ==
    [portfolio_impact |-> <<>>, category_impact |-> <<>>,
     brand_impact |-> <<>>, launch_classification |-> <<>>]

\* ------------------------------------------------------ inputs of a run
\* The brand and the type of the three products of the master table.
Catalog ==
    (1 :> [brand |-> "X", type |-> "C"]) @@
    (2 :> [brand |-> "X", type |-> "C"]) @@
    (3 :> [brand |-> "Y", type |-> "C"])

\* The launch dates each product can have: before the lookback window of a
\* sales table that ends at 26 (0), on its cutoff (2), among the sales
\* dates (20).
LaunchDates ==
    (1 :> {0, 20}) @@ (2 :> {0, 2, 20}) @@ (3 :> {0, 20})
\* The dates and revenues of the sales rows each product can have.
SalesDates ==
    (1 :> {14, 20, 26}) @@ (2 :> {20, 26}) @@ (3 :> {20})
Revenues ==
    (1 :> {10}) @@ (2 :> {10, 20}) @@ (3 :> {10})
TopNChoices == {0, 2, 5}

ProductTables ==
    {[i \in 1..3 |-> [product_id |-> i, brand |-> Catalog[i].brand,
                      type |-> Catalog[i].type, launch_date |-> ld[i]]]
     : ld \in {f \in [1..3 -> {0, 2, 20}] : \A i \in 1..3 : f[i] \in LaunchDates[i]}}

SalesRows ==
    UNION {[product_id : {p}, date : SalesDates[p], revenue : Revenues[p]]
           : p \in ProductIds}

RowLeq(a, b) ==
    \/ a.product_id < b.product_id
    \/ a.product_id = b.product_id /\ a.date < b.date
    \/ a.product_id = b.product_id /\ a.date = b.date /\ a.revenue <= b.revenue

\* The sales tables of at most n rows over a set of rows, one row order per
\* multiset of rows.
SalesTablesOver(rows, n) ==
    UNION {{t \in [1..k -> rows] : \A i \in 1..(k - 1) : RowLeq(t[i], t[i + 1])}
           : k \in 0..n}

\* ------------------------------------------------- main(), Phase 4
Raise(e) ==
    /\ pc' = "raised"
    /\ err' = e

\* Variant of NL_Identify that sorts the product table it was given in
\* place (no .copy() before the sort).
NL_Identify_InPlace ==
    /\ pc = "nl_identify"
    /\ \E nl \in IdentifyNewLaunches(products, df, LookbackMonths) :
           nl_results' = [nl_results EXCEPT !.new_launches = nl]
    /\ products' \in SortValuesDesc(products, LaunchDateColumn(products))
    /\ pc' = "nl_score"
    /\ UNCHANGED <<df, window_months, forecast_vars, launches, sov_results,
                   impact_results, err>>

\* self.results['new_launches'] = self._identify_new_launches(months)
NL_Identify ==
    /\ pc = "nl_identify"
    /\ \E nl \in IdentifyNewLaunches(products, df, LookbackMonths) :
           nl_results' = [nl_results EXCEPT !.new_launches = nl]
    /\ pc' = "nl_score"
    /\ UNCHANGED <<inputs, forecast_vars, launches, sov_results, impact_results, err>>

\* self.results['launch_performance'] = self._calculate_launch_performance()
NL_Score ==
    /\ pc = "nl_score"
    /\ ScoredRows(df, nl_results.new_launches) # <<>>
    /\ \E perf \in SortByScore(ScoredRows(df, nl_results.new_launches)) :
           nl_results' = [nl_results EXCEPT !.launch_performance = perf]
    /\ pc' = "nl_select"
    /\ UNCHANGED <<inputs, forecast_vars, launches, sov_results, impact_results, err>>

\* With no scored candidate pd.DataFrame([]) has no column and
\* sort_values('performance_score') raises KeyError.
NL_ScoreRaises ==
    /\ pc = "nl_score"
    /\ ScoredRows(df, nl_results.new_launches) = <<>>
    /\ Raise("KeyError")
    /\ UNCHANGED <<inputs, forecast_vars, launches, nl_results, sov_results, impact_results>>

\* self.results['top_launches'] = self._select_top_launches(top_n)
NL_SelectTop ==
    /\ pc = "nl_select"
    /\ \E n \in TopNChoices :
           nl_results' =
               [nl_results EXCEPT
                   !.top_launches = SelectTopLaunches(nl_results.launch_performance, n),
                   !.top_n = n]
    /\ pc' = "nl_targets"
    /\ UNCHANGED <<inputs, forecast_vars, launches, sov_results, impact_results, err>>

\* self.results['cannibalization_targets'] = ...; execute returns and main
\* takes top_launches out of the results.
NL_Targets ==
    /\ pc = "nl_targets"
    /\ nl_results' =
           [nl_results EXCEPT
               !.cannibalization_targets =
                   CannibalizationTargets(products, nl_results.top_launches)]
    /\ launches' = nl_results.top_launches
    /\ pc' = "main_branch"
    /\ UNCHANGED <<inputs, forecast_vars, sov_results, impact_results, err>>

\* if len(top_launches) > 0: SOVAnalyzer(integrated_df, top_launches).execute()
Main_CallSOV ==
    /\ pc = "main_branch"
    /\ Len(launches) > 0
    /\ pc' = "sov_start"
    /\ UNCHANGED <<inputs, forecast_vars, launches, nl_results, sov_results, impact_results, err>>

\* else: sov_results = {}; impact_results = {}
Main_SkipPhase4 ==
    /\ pc = "main_branch"
    /\ Len(launches) = 0
    /\ sov_results' = <<>>
    /\ impact_results' = <<>>
    /\ pc' = "done"
    /\ UNCHANGED <<inputs, forecast_vars, launches, nl_results, err>>

\* ------------------------------------------------- SOVAnalyzer.execute
\* The early return for an empty launch table.
SOV_ReturnEmpty ==
    /\ pc = "sov_start"
    /\ Len(launches) = 0
    /\ sov_results' = EmptySovResults
    /\ pc' = "sov_done"
    /\ UNCHANGED <<inputs, forecast_vars, launches, nl_results, impact_results, err>>

\* self.results['sov_by_launch'] = self._analyze_sov_by_launch(window_months)
SOV_Analyze ==
    /\ pc = "sov_start"
    /\ Len(launches) > 0
    /\ sov_results' =
           [sov_by_launch |-> AnalyzeSovByLaunch(df, launches, window_months),
            sov_breakdown |-> <<>>,
            significance_tests |-> <<>>]
    /\ pc' = "sov_breakdown"
    /\ UNCHANGED <<inputs, forecast_vars, launches, nl_results, impact_results, err>>

\* self.results['sov_breakdown'] = self._calculate_sov_breakdown()
SOV_Breakdown ==
    /\ pc = "sov_breakdown"
    /\ sov_results' =
           [sov_results EXCEPT
               !.sov_breakdown =
                   SovBreakdown(sov_results.sov_by_launch, SovKeyOrder(launches))]
    /\ pc' = "sov_tests"
    /\ UNCHANGED <<inputs, forecast_vars, launches, nl_results, impact_results, err>>

\* self.results['significance_tests'] = self._perform_significance_tests()
SOV_Tests ==
    /\ pc = "sov_tests"
    /\ sov_results' =
           [sov_results EXCEPT
               !.significance_tests =
                   SignificanceTests(df, sov_results.sov_by_launch)]
    /\ pc' = "sov_done"
    /\ UNCHANGED <<inputs, forecast_vars, launches, nl_results, impact_results, err>>

\* Variant of Main_CallImpact that starts the portfolio impact before the
\* significance tests of the SOV analysis have run.
Main_CallImpact_Early ==
    /\ pc = "sov_tests"
    /\ pc' = "impact_start"
    /\ UNCHANGED <<inputs, forecast_vars, launches, nl_results, sov_results,
                   impact_results, err>>

\* PortfolioImpactAnalyzer(integrated_df, top_launches, sov_results).execute()
Main_CallImpact ==
    /\ pc = "sov_done"
    /\ pc' = "impact_start"
    /\ UNCHANGED <<inputs, forecast_vars, launches, nl_results, sov_results, impact_results, err>>

\* ------------------------------------- PortfolioImpactAnalyzer.execute
\* self.results['portfolio_impact'] = self._calculate_portfolio_impact(...)
PI_PortfolioImpact ==
    /\ pc = "impact_start"
    /\ ImpactRows(df, launches, sov_results.sov_by_launch, window_months) # <<>>
    /\ \E t \in SortByNetImpact(
                  ImpactRows(df, launches, sov_results.sov_by_launch, window_months)) :
           impact_results' = [impact_results EXCEPT !.portfolio_impact = t]
    /\ pc' = "impact_category"
    /\ UNCHANGED <<inputs, forecast_vars, launches, nl_results, sov_results, err>>

\* With no row pd.DataFrame([]) has no column and sort_values('net_impact')
\* raises KeyError.
PI_PortfolioImpactRaises ==
    /\ pc = "impact_start"
    /\ ImpactRows(df, launches, sov_results.sov_by_launch, window_months) = <<>>
    /\ Raise("KeyError")
    /\ UNCHANGED <<inputs, forecast_vars, launches, nl_results, sov_results, impact_results>>

\* self.results['category_impact'] = self._calculate_category_impact()
PI_CategoryImpact ==
    /\ pc = "impact_category"
    /\ \E t \in SortByNetImpact(CategoryRows(launches, sov_results.sov_by_launch)) :
           impact_results' = [impact_results EXCEPT !.category_impact = t]
    /\ pc' = "impact_brand"
    /\ UNCHANGED <<inputs, forecast_vars, launches, nl_results, sov_results, err>>

\* self.results['brand_impact'] = self._calculate_brand_impact()
PI_BrandImpact ==
    /\ pc = "impact_brand"
    /\ \E t \in SortByNetImpact(BrandRows(launches, sov_results.sov_by_launch)) :
           impact_results' = [impact_results EXCEPT !.brand_impact = t]
    /\ pc' = "impact_classify"
    /\ UNCHANGED <<inputs, forecast_vars, launches, nl_results, sov_results, err>>

\* self.results['launch_classification'] = self._classify_launches()
PI_Classify ==
    /\ pc = "impact_classify"
    /\ impact_results' =
           [impact_results EXCEPT
               !.launch_classification =
                   ClassifyLaunches(impact_results.portfolio_impact)]
    /\ pc' = "impact_done"
    /\ UNCHANGED <<inputs, forecast_vars, launches, nl_results, sov_results, err>>

\* impact_results = portfolio_impact.execute(); main goes on to its summary.
Main_Finish ==
    /\ pc = "impact_done"
    /\ pc' = "done"
    /\ UNCHANGED <<inputs, forecast_vars, launches, nl_results, sov_results, impact_results, err>>

\* ------------------------- SOVAnalyzer(df, launches).execute(w) called alone
\* Largest number of rows of the sales table of such a call.
MaxSovSales == 4

\* Product 3 is a sibling of products 1 and 2, a competitor in their
\* category, or a product of their brand in another category.
SovCatalogs ==
    {(1 :> [brand |-> "X", type |-> "C"]) @@
     (2 :> [brand |-> "X", type |-> "C"]) @@
     (3 :> c) : c \in {[brand |-> "X", type |-> "C"],
                       [brand |-> "Y", type |-> "C"],
                       [brand |-> "X", type |-> "D"]}}

SovLaunchDates == {20}
\* 18 and 20 open the pre and the post window of a one-month window around
\* the launch and 22 closes its post window; all three lie inside the
\* six-month windows.
SovSalesRows ==
    [product_id : {1}, date : {20}, revenue : {10}]
    \cup [product_id : {2}, date : {18, 20, 22}, revenue : {0, 10, 20}]
    \cup [product_id : {3}, date : {18, 20}, revenue : {10, 20}]
WindowChoices == {1, 6}

SovProductTables ==
    {[i \in 1..3 |-> [product_id |-> i, brand |-> c[i].brand,
                      type |-> c[i].type, launch_date |-> d]]
     : c \in SovCatalogs, d \in SovLaunchDates}

\* The launch tables over products 1 and 2: no row, one row, both in either
\* order.
LaunchTablesOf(prods) ==
    {<<>>, <<prods[1]>>, <<prods[2]>>, <<prods[1], prods[2]>>, <<prods[2], prods[1]>>}

InitSOV ==
    /\ products \in SovProductTables
    /\ \E sales \in SalesTablesOver(SovSalesRows, MaxSovSales) :
           df = Merge(sales, products)
    /\ window_months \in WindowChoices
    /\ launches \in LaunchTablesOf(products)
    /\ nl_results = NoNlResults
    /\ sov_results = NoSovResults
    /\ impact_results = NoImpactResults
    /\ pc = "sov_start"
    /\ err = ""
    /\ ForecastIdle

NextSOV ==
    \/ SOV_ReturnEmpty
    \/ SOV_Analyze
    \/ SOV_Breakdown
    \/ SOV_Tests

SpecSOV == InitSOV /\ [][NextSOV]_vars

\* ---- SOVAnalyzer(df, launches).execute(w) called alone, on sales tables in
\* which a product sells in four consecutive months around the launch date
\* and a category holds two competitors
\* Largest number of rows of the sales table of such a call.
MaxWideSales == 4

\* Products 2 and 3 are a sibling and a competitor of product 1, or two
\* competitors of it.
WideCatalogs ==
    {(1 :> [brand |-> "X", type |-> "C"]) @@
     (2 :> [brand |-> "X", type |-> "C"]) @@
     (3 :> [brand |-> "Y", type |-> "C"]),
     (1 :> [brand |-> "X", type |-> "C"]) @@
     (2 :> [brand |-> "Y", type |-> "C"]) @@
     (3 :> [brand |-> "Z", type |-> "C"])}

WideLaunchDates == {20}
\* 16 and 18 lie in two months before the launch date, 20 and 22 in two
\* months from it on; 22 is also where its one-month post window closes.
WideSalesRows ==
    [product_id : {2}, date : {16, 18, 20, 22}, revenue : {10, 20}]
    \cup [product_id : {3}, date : {18, 20}, revenue : {10, 20}]

WideProductTables ==
    {[i \in 1..3 |-> [product_id |-> i, brand |-> c[i].brand,
                      type |-> c[i].type, launch_date |-> d]]
     : c \in WideCatalogs, d \in WideLaunchDates}

\* No launch, product 1 (which has no sales of its own) or product 2.
WideLaunchTables(prods) == {<<>>, <<prods[1]>>, <<prods[2]>>}

InitSOVWide ==
    /\ products \in WideProductTables
    /\ \E sales \in SalesTablesOver(WideSalesRows, MaxWideSales) :
           df = Merge(sales, products)
    /\ window_months \in WindowChoices
    /\ launches \in WideLaunchTables(products)
    /\ nl_results = NoNlResults
    /\ sov_results = NoSovResults
    /\ impact_results = NoImpactResults
    /\ pc = "sov_start"
    /\ err = ""
    /\ ForecastIdle

SpecSOVWide == InitSOVWide /\ [][NextSOV]_vars

\* ---- PortfolioImpactAnalyzer(df, launches, sov_results).execute(w) called alone
\* Largest number of rows of the sales table of such a call.
MaxImpactSales == 1

ImpactCatalog ==
    (1 :> [brand |-> "X", type |-> "C"]) @@
    (2 :> [brand |-> "Y", type |-> "C"]) @@
    (3 :> [brand |-> "X", type |-> "D"])

ImpactLaunchDates == {20}
ImpactSalesRows ==
    [product_id : {1}, date : {18, 20}, revenue : {10}]
NewRevenues == {0, 1000}
LostRevenues == {0, 1100, 1150}

ImpactProductTables ==
    {[i \in 1..3 |-> [product_id |-> i, brand |-> ImpactCatalog[i].brand,
                      type |-> ImpactCatalog[i].type, launch_date |-> d]]
     : d \in ImpactLaunchDates}

\* Every launch table without a repeated product.
ImpactLaunchTables(prods) ==
    UNION {{[k \in 1..n |-> prods[f[k]]]
            : f \in {g \in [1..n -> ProductIds] :
                        \A i, j \in 1..n : i # j => g[i] # g[j]}}
           : n \in 0..3}

\* An SOV record with the two revenues PortfolioImpactAnalyzer reads.
SovInput(pid, launch_date, new_product_revenue, cannibalized_revenue) ==
    [new_product_id |-> pid,
     launch_date |-> launch_date,
     new_product_revenue |-> new_product_revenue,
     cannibalized_revenue |-> cannibalized_revenue,
     cannibalized_products |-> <<>>,
     competitor_loss |-> 0,
     market_expansion |-> 0,
     sov_breakdown |->
         [cannibalization_pct |-> SovPct(cannibalized_revenue, new_product_revenue),
          competitor_pct |-> RatOfInt(0),
          expansion_pct |-> RatOfInt(0)]]

\* Every sov_by_launch dict over a subset of the products.
SovInputs(prods) ==
    UNION {{[pid \in S |-> SovInput(pid, ProductRow(prods, pid).launch_date,
                                    f[pid].new, f[pid].lost)]
            : f \in [S -> [new : NewRevenues, lost : LostRevenues]]}
           : S \in SUBSET ProductIds}

InitImpact ==
    /\ products \in ImpactProductTables
    /\ \E sales \in SalesTablesOver(ImpactSalesRows, MaxImpactSales) :
           df = Merge(sales, products)
    /\ window_months = DefaultWindow
    /\ launches \in ImpactLaunchTables(products)
    /\ nl_results = NoNlResults
    /\ \E d \in SovInputs(products) :
           sov_results = [sov_by_launch |-> d, sov_breakdown |-> <<>>,
                          significance_tests |-> <<>>]
    /\ impact_results = NoImpactResults
    /\ pc = "impact_start"
    /\ err = ""
    /\ ForecastIdle

NextImpact ==
    \/ PI_PortfolioImpact
    \/ PI_PortfolioImpactRaises
    \/ PI_CategoryImpact
    \/ PI_BrandImpact
    \/ PI_Classify

SpecImpact == InitImpact /\ [][NextImpact]_vars

\* ------------- TimeSeriesForecaster(df).execute(h, category) called alone
\* Largest number of months of the sales table of such a run.
MaxMonths == 4

\* The revenue of the last month, which is the held-out one.
LastRevenues == {10, 15, 20}
\* What a fitted model can predict for a month.
ForecastValues == {10, 20}
HorizonChoices == {0, 1, 2}
CategoryChoices == {"", "C"}

\* Product 1 (category C) sells 10 in each of n consecutive months but
\* the last, where it sells last; with extra, product 3 (category D) sells 10
\* in the first month too.
ForecastSales(n, last, extra) ==
    (IF extra THEN <<[product_id |-> 3, date |-> 0, revenue |-> 10]>> ELSE <<>>)
    \o [k \in 1..n |-> [product_id |-> 1, date |-> (k - 1) * MonthLen,
                        revenue |-> IF k = n THEN last ELSE 10]]

ForecastSalesTables ==
    {ForecastSales(n, last, FALSE) : n \in 1..MaxMonths, last \in LastRevenues}
    \cup {ForecastSales(n, last, TRUE) : n \in 2..MaxMonths, last \in LastRevenues}

\* The same with the held-out month one month later: no sale in the month
\* before it, so the monthly series has a gap between train and test.
ForecastSalesGap(n, last) ==
    [k \in 1..n |-> [product_id |-> 1,
                     date |-> (IF k = n THEN k ELSE k - 1) * MonthLen,
                     revenue |-> IF k = n THEN last ELSE 10]]

GapSalesTables ==
    {ForecastSalesGap(n, last) : n \in 2..MaxMonths, last \in LastRevenues}

\* What a library does inside the try block of a model: an exception, or
\* (when there is something to fit on) predictions for the steps months that
\* follow the training series: any value for the next month and any one
\* value for the months after it.
FitOutcomes(fitted_on, steps) ==
    {[raised |-> TRUE, yhat |-> <<>>]}
    \cup (IF Len(fitted_on) > 0
          THEN {[raised |-> FALSE,
                 yhat |-> [k \in 1..steps |-> IF k = 1 THEN f.next ELSE f.later]]
                : f \in [next : ForecastValues, later : ForecastValues]}
          ELSE {})

\* What statsmodels does inside the try block of _sarima_forecast: as
\* FitOutcomes, with the index the forecasts come with.
SarimaOutcomes(fitted_on, steps) ==
    {[raised |-> TRUE, yhat |-> <<>>, index |-> ""]}
    \cup {[raised |-> FALSE, yhat |-> o.yhat, index |-> i]
          : o \in {x \in FitOutcomes(fitted_on, steps) : ~x.raised},
            i \in {"dates", "positions"}}

\* What Prophet does inside the try block: as FitOutcomes, with the fitted
\* values of the training months, which the code reads only when it slices
\* the prediction frame with a horizon of 0 (fitted_read).
ProphetOutcomes(fitted_on, steps, fitted_read) ==
    {[raised |-> TRUE, yhat |-> <<>>, fitted |-> <<>>]}
    \cup {[raised |-> FALSE, yhat |-> o.yhat, fitted |-> f]
          : o \in {x \in FitOutcomes(fitted_on, steps) : ~x.raised},
            f \in (IF fitted_read THEN [1..Len(fitted_on) -> ForecastValues]
                   ELSE {<<>>})}

Steps == IF Len(test) > forecast_horizon THEN Len(test) ELSE forecast_horizon

phase4_vars == <<products, df, launches, window_months, nl_results,
                 sov_results, impact_results, err>>

InitForecast ==
    /\ products \in ImpactProductTables
    /\ \E sales \in ForecastSalesTables \cup GapSalesTables :
           df = Merge(sales, products)
    /\ available \in [statsmodels : BOOLEAN, prophet : BOOLEAN]
    /\ launches = <<>>
    /\ window_months = DefaultWindow
    /\ nl_results = NoNlResults
    /\ sov_results = NoSovResults
    /\ impact_results = NoImpactResults
    /\ pc = "fc_prepare"
    /\ err = ""
    /\ forecast_horizon \in HorizonChoices
    /\ category_arg \in CategoryChoices
    /\ ForecasterBuilt

\* ts_data = self._prepare_time_series(category)
FC_Prepare ==
    /\ pc = "fc_prepare"
    /\ ts_data' = PrepareTimeSeries(df, category_arg)
    /\ pc' = "fc_decompose"
    /\ UNCHANGED <<phase4_vars, forecast_horizon, category_arg, available, train,
                   test, forecast_results, best_model, warned>>

\* self.results['decomposition'] = self._decompose_time_series(ts_data): {}
\* without statsmodels or when seasonal_decompose raises, the components
\* otherwise (real-valued series, kept as computed or not).
FC_Decompose ==
    /\ pc = "fc_decompose"
    /\ \E failed \in (IF available.statsmodels THEN BOOLEAN ELSE {FALSE}) :
           /\ forecast_results' =
                  [forecast_results EXCEPT
                      !.decomposition =
                          [present |-> TRUE,
                           empty |-> failed \/ ~available.statsmodels]]
           /\ warned' = IF failed THEN warned \cup {"decomposition"} ELSE warned
    /\ pc' = "fc_split"
    /\ UNCHANGED <<phase4_vars, forecast_horizon, category_arg, available, ts_data,
                   train, test, best_model>>

\* train = ts_data[:train_size]; test = ts_data[train_size:]
FC_Split ==
    /\ pc = "fc_split"
    /\ train' = SubSeq(ts_data, 1, TrainSize(Len(ts_data)))
    /\ test' = SubSeq(ts_data, TrainSize(Len(ts_data)) + 1, Len(ts_data))
    /\ pc' = "fc_sarima"
    /\ UNCHANGED <<phase4_vars, forecast_horizon, category_arg, available, ts_data,
                   forecast_results, best_model, warned>>

\* if STATSMODELS_AVAILABLE: self.results['sarima'] = self._sarima_forecast(...)
FC_Sarima ==
    /\ pc = "fc_sarima"
    /\ available.statsmodels
    /\ \E outcome \in SarimaOutcomes(train, Steps) :
           /\ forecast_results' =
                  [forecast_results EXCEPT
                      !.sarima = SarimaForecast(train, test, forecast_horizon, outcome)]
           /\ warned' = IF outcome.raised THEN warned \cup {"sarima"} ELSE warned
    /\ pc' = "fc_prophet"
    /\ UNCHANGED <<phase4_vars, forecast_horizon, category_arg, available, ts_data,
                   train, test, best_model>>

FC_SarimaSkipped ==
    /\ pc = "fc_sarima"
    /\ ~available.statsmodels
    /\ pc' = "fc_prophet"
    /\ UNCHANGED <<phase4_vars, forecast_vars>>

\* if PROPHET_AVAILABLE: self.results['prophet'] = self._prophet_forecast(...)
FC_Prophet ==
    /\ pc = "fc_prophet"
    /\ available.prophet
    /\ \E outcome \in ProphetOutcomes(train, Steps, forecast_horizon = 0) :
           /\ forecast_results' =
                  [forecast_results EXCEPT
                      !.prophet = ProphetForecast(train, test, forecast_horizon, outcome)]
           /\ warned' = IF outcome.raised THEN warned \cup {"prophet"} ELSE warned
    /\ pc' = "fc_ensemble"
    /\ UNCHANGED <<phase4_vars, forecast_horizon, category_arg, available, ts_data,
                   train, test, best_model>>

FC_ProphetSkipped ==
    /\ pc = "fc_prophet"
    /\ ~available.prophet
    /\ pc' = "fc_ensemble"
    /\ UNCHANGED <<phase4_vars, forecast_vars>>

\* if 'sarima' in self.results and 'prophet' in self.results:
\*     self.results['ensemble'] = self._create_ensemble_forecast(...)
FC_Ensemble ==
    /\ pc = "fc_ensemble"
    /\ EnsembleWanted(forecast_results)
    /\ ~EnsembleRaises(forecast_results.sarima, forecast_results.prophet)
    /\ forecast_results' =
           [forecast_results EXCEPT
               !.ensemble = CreateEnsembleForecast(forecast_results.sarima,
                                                   forecast_results.prophet, test)]
    /\ pc' = "fc_summary"
    /\ UNCHANGED <<phase4_vars, forecast_horizon, category_arg, available, ts_data,
                   train, test, best_model, warned>>

\* The same call when a MAPE is NaN: the ValueError of the metric leaves
\* _create_ensemble_forecast, execute and its caller.
FC_EnsembleRaises ==
    /\ pc = "fc_ensemble"
    /\ EnsembleWanted(forecast_results)
    /\ EnsembleRaises(forecast_results.sarima, forecast_results.prophet)
    /\ Raise("ValueError")
    /\ UNCHANGED <<inputs, launches, nl_results, sov_results, impact_results,
                   forecast_vars>>

FC_EnsembleSkipped ==
    /\ pc = "fc_ensemble"
    /\ ~EnsembleWanted(forecast_results)
    /\ pc' = "fc_summary"
    /\ UNCHANGED <<phase4_vars, forecast_vars>>

\* self._print_summary(); return self.results
FC_PrintSummary ==
    /\ pc = "fc_summary"
    /\ best_model' =
           [best_model EXCEPT !.forecaster = ForecasterBestModel(forecast_results)]
    /\ pc' = "fc_returned"
    /\ UNCHANGED <<phase4_vars, forecast_horizon, category_arg, available, ts_data,
                   train, test, forecast_results, warned>>

NextForecast ==
    \/ FC_Prepare
    \/ FC_Decompose
    \/ FC_Split
    \/ FC_Sarima
    \/ FC_SarimaSkipped
    \/ FC_Prophet
    \/ FC_ProphetSkipped
    \/ FC_Ensemble
    \/ FC_EnsembleRaises
    \/ FC_EnsembleSkipped
    \/ FC_PrintSummary

SpecForecast == InitForecast /\ [][NextForecast]_vars

\* ------------------- main(): Phase 3.1, Phase 4 and the final summary
\* The runs of main that are followed.  On the sales tables of Phase 4 the
\* forecasting libraries are taken as not installed; with a library
\* installed, product 1 sells in consecutive months from date 0 and is
\* launched at 0 (a new launch with sales) or at 20 (after its last sale),
\* the other two products are launched at 2 and at 20 and sell nothing.
FittedProductTables ==
    {t \in ProductTables : t[2].launch_date = 2 /\ t[3].launch_date = 20}

FittedSalesTables ==
    {ForecastSales(n, last, FALSE) : n \in 1..MaxMonths, last \in LastRevenues}

\* forecaster = TimeSeriesForecaster(integrated_df), about to be executed
\* with forecast_horizon=12 and no category.
Init ==
    /\ \/ /\ products \in ProductTables
          /\ \E sales \in SalesTablesOver(SalesRows, MaxSales) :
                 df = Merge(sales, products)
          /\ available = [statsmodels |-> FALSE, prophet |-> FALSE]
       \/ /\ products \in FittedProductTables
          /\ \E sales \in FittedSalesTables : df = Merge(sales, products)
          /\ available \in [statsmodels : BOOLEAN, prophet : BOOLEAN]
    /\ window_months = DefaultWindow
    /\ launches = <<>>
    /\ nl_results = NoNlResults
    /\ sov_results = NoSovResults
    /\ impact_results = NoImpactResults
    /\ pc = "fc_prepare"
    /\ err = ""
    /\ forecast_horizon = DefaultHorizon
    /\ category_arg = ""
    /\ ForecasterBuilt

\* forecast_results = forecaster.execute(...) has returned; main runs the
\* preference-shift model (not followed here) and builds the
\* NewLaunchIdentifier of Phase 4.
Main_StartPhase4 ==
    /\ pc = "fc_returned"
    /\ pc' = "nl_identify"
    /\ UNCHANGED <<phase4_vars, forecast_vars>>

\* print_summary(..., forecast_results, ...) of main, after Phase 4: the
\* forecasting block.
Main_PrintSummary ==
    /\ pc = "done"
    /\ best_model' = [best_model EXCEPT !.main = MainBestModel(forecast_results)]
    /\ pc' = "main_done"
    /\ UNCHANGED <<phase4_vars, forecast_horizon, category_arg, available, ts_data,
                   train, test, forecast_results, warned>>

Next ==
    \/ FC_Prepare
    \/ FC_Decompose
    \/ FC_Split
    \/ FC_Sarima
    \/ FC_SarimaSkipped
    \/ FC_Prophet
    \/ FC_ProphetSkipped
    \/ FC_Ensemble
    \/ FC_EnsembleRaises
    \/ FC_EnsembleSkipped
    \/ FC_PrintSummary
    \/ Main_StartPhase4
    \/ NL_Identify
    \/ NL_Score
    \/ NL_ScoreRaises
    \/ NL_SelectTop
    \/ NL_Targets
    \/ Main_CallSOV
    \/ Main_SkipPhase4
    \/ SOV_Analyze
    \/ SOV_Breakdown
    \/ SOV_Tests
    \/ Main_CallImpact
    \/ PI_PortfolioImpact
    \/ PI_CategoryImpact
    \/ PI_BrandImpact
    \/ PI_Classify
    \/ Main_Finish
    \/ Main_PrintSummary

Spec == Init /\ [][Next]_vars

\* ---- NewLaunchIdentifier(products, df).execute(months, top_n) called alone,
\* on sales tables in which a product sells in its first three months, in
\* the next three and after them
\* Largest number of rows of the sales table of such a call.
MaxLaunchSales == 3

\* Product 1 is launched three months before product 2 or together with it.
ScoringLaunchDates == (1 :> {14, 20}) @@ (2 :> {20}) @@ (3 :> {20})
\* With a launch on 20, a sale on 20 falls in the first three months, one
\* on 26 in the next three and one on 32 after both.
ScoringSalesRows ==
    [product_id : {1}, date : {20, 26, 32}, revenue : {10, 20}]
    \cup [product_id : {2}, date : {20, 26}, revenue : {10, 20}]

ScoringProductTables ==
    {[i \in 1..3 |-> [product_id |-> i, brand |-> Catalog[i].brand,
                      type |-> Catalog[i].type, launch_date |-> ld[i]]]
     : ld \in {f \in [1..3 -> {14, 20}] :
                  \A i \in 1..3 : f[i] \in ScoringLaunchDates[i]}}

InitLaunch ==
    /\ products \in ScoringProductTables
    /\ \E sales \in SalesTablesOver(ScoringSalesRows, MaxLaunchSales) :
           df = Merge(sales, products)
    /\ window_months = DefaultWindow
    /\ launches = <<>>
    /\ nl_results = NoNlResults
    /\ sov_results = NoSovResults
    /\ impact_results = NoImpactResults
    /\ pc = "nl_identify"
    /\ err = ""
    /\ ForecastIdle

NextLaunch ==
    \/ NL_Identify
    \/ NL_Score
    \/ NL_ScoreRaises
    \/ NL_SelectTop
    \/ NL_Targets

SpecLaunch == InitLaunch /\ [][NextLaunch]_vars

\* ------------------------------------------------------------ properties
\* The sum of the values of a function with a finite domain.
RECURSIVE SumFn(_)
SumFn(f) ==
    IF DOMAIN f = {} THEN 0
    ELSE LET x == CHOOSE y \in DOMAIN f : TRUE
         IN  f[x] + SumFn([y \in DOMAIN f \ {x} |-> f[y]])

Min(a, b) == IF a < b THEN a ELSE b
Max0(a) == IF a > 0 THEN a ELSE 0

\* The rows of the per-launch impact table computed so far.
ImpactTable == impact_results.portfolio_impact
SovByLaunch == sov_results.sov_by_launch

\* C1: every row of the per-launch impact table has net_impact equal to
\* new_product_revenue minus cannibalized_revenue of the SOV record of the
\* row's product_id.
C1_NetImpactExact ==
    \A i \in 1..Len(ImpactTable) :
        LET row == ImpactTable[i]
        IN  /\ row.product_id \in DOMAIN SovByLaunch
            /\ row.net_impact =
                   SovByLaunch[row.product_id].new_product_revenue
                   - SovByLaunch[row.product_id].cannibalized_revenue

\* A table with a launch that cannibalized and one that did not.
C1_Witness ==
    /\ \E i \in 1..Len(ImpactTable) :
           ImpactTable[i].new_product_revenue = 1000 /\ ImpactTable[i].lost_revenue = 1150
    /\ \E i \in 1..Len(ImpactTable) :
           ImpactTable[i].new_product_revenue = 1000 /\ ImpactTable[i].lost_revenue = 0

\* The SOV records exist from the end of _analyze_sov_by_launch on.
SovAnalyzed == pc \in {"sov_breakdown", "sov_tests", "sov_done"}

\* C2: every SOV record has cannibalized_revenue >= 0 and
\* competitor_loss >= 0.
C2_SovNonNegative ==
    SovAnalyzed =>
        \A pid \in DOMAIN SovByLaunch :
            /\ SovByLaunch[pid].cannibalized_revenue >= 0
            /\ SovByLaunch[pid].competitor_loss >= 0

\* Competitor revenue in the windows of a launch, counted row by row.
CompetitorRevenue(launch, lo, hi) ==
    SumFn([i \in {j \in 1..Len(df) : /\ df[j].type = launch.type
                                      /\ df[j].brand # launch.brand
                                      /\ df[j].date >= lo
                                      /\ df[j].date < hi} |-> df[i].revenue])

\* A record with a positive cannibalized_revenue and a positive
\* competitor_loss.
C2_Witness ==
    /\ SovAnalyzed
    /\ \E pid \in DOMAIN SovByLaunch :
           SovByLaunch[pid].competitor_loss > 0 /\ SovByLaunch[pid].cannibalized_revenue > 0

\* A record whose competitors gained revenue, so that the floor applies.
C2_WitnessFloor ==
    /\ SovAnalyzed
    /\ \E i \in 1..Len(launches) :
           /\ SovByLaunch[launches[i].product_id].competitor_loss = 0
           /\ CompetitorRevenue(launches[i],
                                DateOffset(launches[i].launch_date, -window_months),
                                launches[i].launch_date)
              < CompetitorRevenue(launches[i], launches[i].launch_date,
                                  DateOffset(launches[i].launch_date, window_months))

\* C3: each row carries exactly one of the three labels, decided in order
\* from the SOV record's revenues: Additive if and only if net_impact > 0,
\* Substitutive if and only if net_impact <= 0 and the net loss exceeds a
\* tenth of the new product's revenue, Neutral otherwise; a loss of exactly
\* a tenth (1000 against 1100) is Neutral, 1000 against 1150 is
\* Substitutive.
C3_Classification ==
    \A i \in 1..Len(ImpactTable) :
        LET row == ImpactTable[i]
            new == SovByLaunch[row.product_id].new_product_revenue
            lost == SovByLaunch[row.product_id].cannibalized_revenue
            net == new - lost
        IN  /\ row.launch_type \in {"Additive", "Substitutive", "Neutral"}
            /\ (row.launch_type = "Additive") <=> (net > 0)
            /\ (row.launch_type = "Substitutive") <=> (net <= 0 /\ 10 * (-net) > new)
            /\ (row.launch_type = "Neutral") <=> (net <= 0 /\ 10 * (-net) <= new)
            /\ (new = 1000 /\ lost = 1100) => row.launch_type = "Neutral"
            /\ (new = 1000 /\ lost = 1150) => row.launch_type = "Substitutive"

\* A table with the three labels, the boundary launch among them.
C3_Witness ==
    /\ \E i \in 1..Len(ImpactTable) :
           /\ ImpactTable[i].new_product_revenue = 1000
           /\ ImpactTable[i].lost_revenue = 1100
           /\ ImpactTable[i].launch_type = "Neutral"
    /\ \E i \in 1..Len(ImpactTable) :
           /\ ImpactTable[i].new_product_revenue = 1000
           /\ ImpactTable[i].lost_revenue = 1150
           /\ ImpactTable[i].launch_type = "Substitutive"
    /\ \E i \in 1..Len(ImpactTable) : ImpactTable[i].launch_type = "Additive"

\* The launches of a category that have an SOV record.
RecordedLaunchIds(category) ==
    {launches[i].product_id : i \in {j \in 1..Len(launches) :
        launches[j].type = category /\ launches[j].product_id \in DOMAIN SovByLaunch}}

CategoryNew(category) ==
    SumFn([pid \in RecordedLaunchIds(category) |-> SovByLaunch[pid].new_product_revenue])

CategoryNet(category) ==
    SumFn([pid \in RecordedLaunchIds(category) |->
              SovByLaunch[pid].new_product_revenue
              - SovByLaunch[pid].cannibalized_revenue])

CategoryComputed == pc \in {"impact_brand", "impact_classify", "impact_done"}

\* C4: every category of the launch table has exactly one category row; its
\* net_impact is the sum over the category's launches of
\* (new_product_revenue - cannibalized_revenue) of their SOV records, and
\* its net_impact_pct is that sum over the summed new revenue, times 100
\* (0 when the summed new revenue is not positive).
C4_CategorySum ==
    CategoryComputed =>
        LET table == impact_results.category_impact
        IN  /\ \A i, j \in 1..Len(table) : table[i].key = table[j].key => i = j
            /\ {table[i].key : i \in 1..Len(table)}
                   = {launches[i].type : i \in 1..Len(launches)}
            /\ \A i \in 1..Len(table) :
                   LET row == table[i]
                       new == CategoryNew(row.key)
                       net == CategoryNet(row.key)
                   IN  /\ row.net_impact = net
                       /\ IF new > 0
                          THEN row.net_impact_pct.num * new
                                   = net * 100 * row.net_impact_pct.den
                          ELSE row.net_impact_pct.num = 0

\* A category of two launches, 1000 new with nothing lost and nothing new
\* with 1100 lost: the per-launch percentages are 100 and 0, the category's
\* is -10.
C4_Witness ==
    /\ CategoryComputed
    /\ \E i \in 1..Len(impact_results.category_impact) :
           LET row == impact_results.category_impact[i]
           IN  /\ row.num_launches = 2
               /\ row.total_new_revenue = 1000
               /\ row.total_lost_revenue = 1100
               /\ row.net_impact_pct = [num |-> -10, den |-> 1]
               /\ \E a, b \in 1..Len(ImpactTable) :
                      /\ ImpactTable[a].net_impact_pct = [num |-> 100, den |-> 1]
                      /\ ImpactTable[b].net_impact_pct = [num |-> 0, den |-> 1]
                      /\ ImpactTable[b].lost_revenue = 1100

\* C5: with an empty launch table SOVAnalyzer.execute returns an empty
\* sov_by_launch, an empty sov_breakdown and an empty significance_tests,
\* and raises nothing.
C5_EmptyLaunchesEmptySov ==
    (Len(launches) = 0 /\ pc # "sov_start") =>
        /\ pc = "sov_done"
        /\ err = ""
        /\ sov_results.sov_by_launch = <<>>
        /\ sov_results.sov_breakdown = <<>>
        /\ sov_results.significance_tests = <<>>

\* execute has returned for an empty launch table and a sales table with rows.
C5_Witness ==
    /\ Len(launches) = 0
    /\ pc = "sov_done"
    /\ Len(df) > 0

\* C6: with an empty launch table and the empty SOV output
\* PortfolioImpactAnalyzer.execute raises nothing (and ends with no
\* per-launch, per-category or per-brand row).
C6_EmptyLaunchesNoRaise ==
    (Len(launches) = 0 /\ SovByLaunch = <<>> /\ pc # "impact_start") =>
        /\ pc # "raised"
        /\ impact_results.portfolio_impact = <<>>
        /\ impact_results.category_impact = <<>>
        /\ impact_results.brand_impact = <<>>

\* No product is a candidate with post-launch sales.
NoScoredCandidate ==
    ScoredRows(df, NewLaunchRows(products, df, LookbackMonths)) = <<>>

\* C7: when no product was launched inside the lookback window, or every
\* candidate lacks post-launch sales, NewLaunchIdentifier.execute raises
\* nothing and its top_launches stays empty.
C7_NoLaunchNoError ==
    NoScoredCandidate =>
        /\ pc # "raised"
        /\ nl_results.top_launches = <<>>

\* The rows of the sales table of one product in a window, and their revenue.
RowsIn(pid, lo, hi) ==
    {i \in 1..Len(df) : df[i].product_id = pid /\ df[i].date >= lo /\ df[i].date < hi}

RevenueOf(rowset) == SumFn([i \in rowset |-> df[i].revenue])

PreRows(launch, pid) ==
    RowsIn(pid, DateOffset(launch.launch_date, -window_months), launch.launch_date)

PostRows(launch, pid) ==
    RowsIn(pid, launch.launch_date, DateOffset(launch.launch_date, window_months))

\* The other products of the launch's category and brand.
Siblings(launch) ==
    {pid \in ProductIds \ {launch.product_id} :
        /\ ProductRow(products, pid).type = launch.type
        /\ ProductRow(products, pid).brand = launch.brand}

\* The siblings with sales in both windows.
InBothWindows(launch) ==
    {pid \in Siblings(launch) : PreRows(launch, pid) # {} /\ PostRows(launch, pid) # {}}

SiblingLoss(launch, pid) ==
    Max0(RevenueOf(PreRows(launch, pid)) - RevenueOf(PostRows(launch, pid)))

\* C8: for each launch cannibalized_revenue is the sum, over the siblings
\* (same category and brand, another product) with sales in both windows, of
\* max(0, pre-window revenue - post-window revenue); cannibalized_products
\* lists exactly the siblings with a strictly positive loss, once each, with
\* that loss, and the losses add up to cannibalized_revenue; a sibling whose
\* pre-window revenue is absent or zero is not listed.
C8_CannibalizedRevenue ==
    SovAnalyzed =>
        \A i \in 1..Len(launches) :
            LET launch == launches[i]
                rec == SovByLaunch[launch.product_id]
                listed == rec.cannibalized_products
            IN  /\ rec.cannibalized_revenue =
                       SumFn([pid \in InBothWindows(launch) |-> SiblingLoss(launch, pid)])
                /\ {listed[k].product_id : k \in 1..Len(listed)}
                       = {pid \in InBothWindows(launch) : SiblingLoss(launch, pid) > 0}
                /\ \A k, m \in 1..Len(listed) :
                       listed[k].product_id = listed[m].product_id => k = m
                /\ \A k \in 1..Len(listed) :
                       listed[k].revenue_loss = SiblingLoss(launch, listed[k].product_id)
                /\ SumFn([k \in 1..Len(listed) |-> listed[k].revenue_loss])
                       = rec.cannibalized_revenue
                /\ \A pid \in Siblings(launch) :
                       RevenueOf(PreRows(launch, pid)) = 0 =>
                           \A k \in 1..Len(listed) : listed[k].product_id # pid

\* Product 1 launches with two siblings that sold in both windows: one lost
\* revenue and is the only one counted, the other gained.
C8_Witness ==
    /\ SovAnalyzed
    /\ launches # <<>>
    /\ launches[1].product_id = 1
    /\ InBothWindows(launches[1]) = {2, 3}
    /\ SiblingLoss(launches[1], 2) = 10
    /\ RevenueOf(PostRows(launches[1], 3)) > RevenueOf(PreRows(launches[1], 3))
    /\ SovByLaunch[1].cannibalized_revenue = 10

\* The candidates that get a score, whatever the row order.
Scored == ScoredRows(df, NewLaunchRows(products, df, LookbackMonths))

TopSelected == pc \in {"nl_targets", "main_branch", "sov_start", "sov_breakdown",
                       "sov_tests", "sov_done", "impact_start", "impact_category",
                       "impact_brand", "impact_classify", "impact_done", "done",
                       "main_done"}

\* C10: top_launches holds min(n, number of scored candidates) distinct
\* rows of the scored table in descending performance_score order, and no
\* scored candidate left out has a higher score than one taken.
C10_TopLaunches ==
    TopSelected =>
        LET top == nl_results.top_launches
            n == nl_results.top_n
            perf == nl_results.launch_performance
            scored == {perf[i] : i \in 1..Len(perf)}
            taken == {top[i] : i \in 1..Len(top)}
        IN  /\ Len(top) = Min(n, Len(perf))
            /\ Cardinality({top[i].product_id : i \in 1..Len(top)}) = Len(top)
            /\ taken \subseteq scored
            /\ \A i, j \in 1..Len(top) :
                   i < j => ~RatLess(top[i].performance_score, top[j].performance_score)
            /\ \A out \in scored \ taken : \A in \in taken :
                   ~RatLess(in.performance_score, out.performance_score)

\* Three candidates with three different scores, the first one scored being
\* the worst, and the best two taken.
C10_Witness ==
    /\ pc = "nl_targets"
    /\ nl_results.top_n = 2
    /\ Len(nl_results.top_launches) = 2
    /\ Len(Scored) = 3
    /\ RatLess(Scored[1].performance_score, Scored[3].performance_score)
    /\ RatLess(Scored[3].performance_score, Scored[2].performance_score)

\* Fewer candidates than asked for: all of them are taken.
C10_WitnessFewer ==
    /\ pc = "nl_targets"
    /\ nl_results.top_n = 5
    /\ Len(nl_results.top_launches) = 2

\* C9: in every row roi is net_impact / cannibalized_revenue * 100 when the
\* SOV record's cannibalized_revenue is positive and the infinity sentinel
\* when it is 0; no row is lost to a division error.
C9_Roi ==
    /\ err \in {"", "KeyError"}
    /\ \A i \in 1..Len(ImpactTable) :
           LET row == ImpactTable[i]
               new == SovByLaunch[row.product_id].new_product_revenue
               lost == SovByLaunch[row.product_id].cannibalized_revenue
           IN  /\ lost > 0 =>
                      /\ ~row.roi.inf
                      /\ row.roi.value.num * lost
                             = (new - lost) * 100 * row.roi.value.den
               /\ lost = 0 => row.roi.inf
    /\ pc \in {"impact_category", "impact_brand", "impact_classify", "impact_done"} =>
           {ImpactTable[i].product_id : i \in 1..Len(ImpactTable)}
               = {launches[i].product_id : i \in {j \in 1..Len(launches) :
                      launches[j].product_id \in DOMAIN SovByLaunch}}

\* A table with a launch that cannibalized nothing and one whose roi is a
\* ratio that is not a whole number.
C9_Witness ==
    /\ \E i \in 1..Len(ImpactTable) :
           ImpactTable[i].lost_revenue = 0 /\ ImpactTable[i].roi.inf
    /\ \E i \in 1..Len(ImpactTable) :
           /\ ImpactTable[i].lost_revenue = 1150
           /\ ImpactTable[i].new_product_revenue = 1000
           /\ ImpactTable[i].roi = [inf |-> FALSE, value |-> [num |-> -300, den |-> 23]]

\* The products without a transaction dated on or after their launch_date.
NoPostLaunchIds ==
    {products[k].product_id : k \in {j \in 1..Len(products) :
        \A i \in 1..Len(df) :
            df[i].product_id = products[j].product_id
                => df[i].date < products[j].launch_date}}

\* SOVAnalyzer and PortfolioImpactAnalyzer have been handed the top launches.
Phase4Analyzed ==
    /\ Len(launches) > 0
    /\ pc \in {"sov_breakdown", "sov_tests", "sov_done", "impact_start",
              "impact_category", "impact_brand", "impact_classify",
              "impact_done", "done", "main_done"}

\* The products listed as existing products in the outputs: in the targets
\* of a cannibalization_targets entry, and among the cannibalized products
\* and the tested products of an SOV record.
ListedTargetIds ==
    UNION {{t.targets[k] : k \in 1..Len(t.targets)}
           : t \in nl_results.cannibalization_targets}
ListedSiblingIds ==
    IF Phase4Analyzed
    THEN UNION {{SovByLaunch[pid].cannibalized_products[k].product_id
                 : k \in 1..Len(SovByLaunch[pid].cannibalized_products)}
                : pid \in DOMAIN SovByLaunch}
         \cup UNION {{sov_results.significance_tests[pid][k].target_product_id
                      : k \in 1..Len(sov_results.significance_tests[pid])}
                     : pid \in DOMAIN sov_results.significance_tests}
    ELSE {}

\* C11, amended: a product without a transaction dated on or after its
\* launch_date is no row of launch_performance or top_launches, is the new
\* product of no entry of cannibalization_targets, and is the launch of no
\* SOV output (sov_by_launch, sov_breakdown, significance_tests) or
\* portfolio-impact output (portfolio_impact, launch_classification),
\* whatever top_n is.  (It can be listed among the targets of another
\* launch, see C11_Witness.)
C11_NoSalesNeverLaunch ==
    LET none == NoPostLaunchIds
    IN  none # {} =>
            /\ RowIds(nl_results.launch_performance) \cap none = {}
            /\ RowIds(nl_results.top_launches) \cap none = {}
            /\ \A t \in nl_results.cannibalization_targets :
                   t.new_product_id \notin none
            /\ RowIds(launches) \cap none = {}
            /\ Phase4Analyzed =>
                   /\ DOMAIN SovByLaunch \cap none = {}
                   /\ RowIds(sov_results.sov_breakdown) \cap none = {}
                   /\ DOMAIN sov_results.significance_tests \cap none = {}
                   /\ RowIds(impact_results.portfolio_impact) \cap none = {}
                   /\ RowIds(impact_results.launch_classification) \cap none = {}

\* C11, as claimed: a product without a transaction dated on or after its
\* launch_date appears nowhere in top_launches, cannibalization_targets or
\* the SOV and portfolio-impact outputs, neither as a launch nor as a listed
\* existing product.
C11_NoSalesNowhere ==
    /\ C11_NoSalesNeverLaunch
    /\ ListedTargetIds \cap NoPostLaunchIds = {}
    /\ ListedSiblingIds \cap NoPostLaunchIds = {}

\* A run that ended with every scored candidate taken (top_n = 5), two of
\* the three products being candidates of which one has no sale after its
\* launch: it is no launch of any output, and it is listed among the
\* cannibalization targets of a top launch.
C11_Witness ==
    /\ pc = "done"
    /\ nl_results.top_n = 5
    /\ Len(nl_results.new_launches) >= 2
    /\ RowIds(nl_results.new_launches) \cap NoPostLaunchIds # {}
    /\ Len(impact_results.launch_classification) > 0
    /\ Len(nl_results.top_launches) < Len(nl_results.new_launches)
    /\ ListedTargetIds \cap NoPostLaunchIds \cap RowIds(nl_results.new_launches) # {}

\* main is in its Phase 3.1, before the NewLaunchIdentifier is executed, or
\* has ended there.
\* forecaster.execute ended with the ValueError of an ensemble metric.
ForecastRaised == pc = "raised" /\ err = "ValueError"

InPhase3 ==
    \/ pc \in {"fc_prepare", "fc_decompose", "fc_split", "fc_sarima", "fc_prophet",
               "fc_ensemble", "fc_summary", "fc_returned"}
    \/ ForecastRaised

\* The latest transaction date, read off the rows.
LatestDate == CHOOSE d \in {df[i].date : i \in 1..Len(df)} :
                  \A i \in 1..Len(df) : df[i].date <= d

CutoffDate == LatestDate - LookbackMonths * MonthLen

\* C12: new_launches holds exactly the rows of the product table whose
\* launch_date >= (latest transaction date - months), each once, in
\* descending launch_date order.
C12_NewLaunches ==
    (~InPhase3 /\ pc # "nl_identify" /\ df # <<>>) =>
        LET nl == nl_results.new_launches
            cutoff_date == CutoffDate
        IN  /\ {nl[i] : i \in 1..Len(nl)}
                   = {products[k] : k \in {j \in 1..Len(products) :
                                              products[j].launch_date >= cutoff_date}}
            /\ Cardinality(RowIds(nl)) = Len(nl)
            /\ \A i, j \in 1..Len(nl) :
                   i < j => nl[i].launch_date >= nl[j].launch_date

\* A product launched on the cutoff date is in, one launched later is ahead
\* of it and one launched before the cutoff is out.
C12_Witness ==
    /\ pc = "nl_score"
    /\ Len(nl_results.new_launches) = 2
    /\ nl_results.new_launches[2].launch_date = CutoffDate
    /\ nl_results.new_launches[1].launch_date > CutoffDate
    /\ \E k \in 1..Len(products) : products[k].launch_date < CutoffDate

\* The sales rows dated in [lo, hi) that satisfy a row filter given as the
\* set of their positions.
RevenueIn(rowset, lo, hi) ==
    RevenueOf({i \in rowset : df[i].date >= lo /\ df[i].date < hi})

\* The two windows of a launch for a width of w months.
PreLo(launch, w) == launch.launch_date - w * MonthLen
PostHi(launch, w) == launch.launch_date + w * MonthLen

\* The months in which a product has a row dated in [lo, hi).
MonthsIn(pid, lo, hi) == {df[i].date \div MonthLen : i \in RowsIn(pid, lo, hi)}

\* C18: when execute has returned, a significance test is recorded for a
\* cannibalized sibling of a launch if and only if the sibling has rows in
\* at least 2 distinct months of the pre window and of the post window, the
\* windows being those of width window_months that the launch's
\* cannibalization was computed on.
C18_TestsOnAnalysisWindows ==
    (pc = "sov_done" /\ Len(launches) > 0) =>
        \A pid \in DOMAIN SovByLaunch :
            LET rec == SovByLaunch[pid]
                launch == [launch_date |-> rec.launch_date]
                listed == rec.cannibalized_products
                tests == sov_results.significance_tests[pid]
                tested == {tests[k].target_product_id : k \in 1..Len(tests)}
            IN  \A k \in 1..Len(listed) :
                    LET target == listed[k].product_id
                    IN  (target \in tested) <=>
                            /\ Cardinality(MonthsIn(target,
                                               PreLo(launch, window_months),
                                               rec.launch_date)) >= 2
                            /\ Cardinality(MonthsIn(target, rec.launch_date,
                                               PostHi(launch, window_months))) >= 2

\* The positions of the rows of a category, of one product, and of the
\* competitors of a launch.
TypeRows(type) == {i \in 1..Len(df) : df[i].type = type}
OwnRows(pid) == {i \in 1..Len(df) : df[i].product_id = pid}
RivalRows(launch) ==
    {i \in 1..Len(df) : df[i].type = launch.type /\ df[i].brand # launch.brand}

\* C19: for every launch, with W = window_months, new_product_revenue is the
\* revenue of the launch's own rows dated in [launch_date, launch_date + W)
\* and of no other row, and the market totals behind market_expansion count
\* each row of the category at most once: in the post total when dated in
\* [launch_date, launch_date + W), in the pre total when dated in
\* [launch_date - W, launch_date), in neither otherwise.
C19_Windows ==
    SovAnalyzed =>
        \A i \in 1..Len(launches) :
            LET launch == launches[i]
                rec == SovByLaunch[launch.product_id]
                lo == PreLo(launch, window_months)
                hi == PostHi(launch, window_months)
                own == RevenueIn(OwnRows(launch.product_id), launch.launch_date, hi)
            IN  /\ rec.new_product_revenue = own
                /\ rec.market_expansion =
                       RevenueIn(TypeRows(launch.type), launch.launch_date, hi)
                       - RevenueIn(TypeRows(launch.type), lo, launch.launch_date)
                       - own

\* Product 2 launches and sells one month before its launch date (pre), on
\* it (post) and exactly one window later (neither); only the revenue of the
\* launch date is its new_product_revenue.
C19_Witness ==
    /\ SovAnalyzed
    /\ launches # <<>>
    /\ launches[1].product_id = 2
    /\ window_months = 1
    /\ \E a, b, c \in OwnRows(2) :
           /\ df[a].date = PreLo(launches[1], 1) /\ df[a].revenue = 20
           /\ df[b].date = launches[1].launch_date /\ df[b].revenue = 10
           /\ df[c].date = PostHi(launches[1], 1) /\ df[c].revenue = 20
    /\ SovByLaunch[2].new_product_revenue = 10
    /\ SovByLaunch[2].market_expansion = -20

\* C20: for every launch competitor_loss is max(0, pre-window revenue -
\* post-window revenue), both summed over all rows of the launch's category
\* with another brand.
C20_CompetitorLossAggregate ==
    SovAnalyzed =>
        \A i \in 1..Len(launches) :
            LET launch == launches[i]
                rec == SovByLaunch[launch.product_id]
                pre == RevenueIn(RivalRows(launch),
                                 PreLo(launch, window_months), launch.launch_date)
                post == RevenueIn(RivalRows(launch), launch.launch_date,
                                  PostHi(launch, window_months))
            IN  rec.competitor_loss = Max0(pre - post)

\* Two competitors of the launch: product 2 loses 10 between the windows,
\* product 3 gains 10, and competitor_loss is 0.
C20_Witness ==
    /\ SovAnalyzed
    /\ launches # <<>>
    /\ launches[1].product_id = 1
    /\ {df[i].product_id : i \in RivalRows(launches[1])} = {2, 3}
    /\ RevenueOf(PreRows(launches[1], 2)) - RevenueOf(PostRows(launches[1], 2)) = 10
    /\ RevenueOf(PostRows(launches[1], 3)) - RevenueOf(PreRows(launches[1], 3)) = 10
    /\ SovByLaunch[1].competitor_loss = 0

\* execute has returned, with the forecaster's own summary printed.
ForecastReturned ==
    /\ pc \notin {"fc_prepare", "fc_decompose", "fc_split", "fc_sarima",
                 "fc_prophet", "fc_ensemble", "fc_summary"}
    /\ ~ForecastRaised

\* The months of a series or of a forecast, in order.
MonthsOf(xs) == [k \in 1..Len(xs) |-> xs[k].month]

\* C13: a model whose try block raised (its failure warning was printed)
\* leaves execute without an error, its result is the empty one, and no
\* ensemble forecast or ensemble metrics exist; an ensemble exists only with
\* two non-empty model results.
C13_FitFailureContained ==
    /\ warned \cap {"sarima", "prophet"} # {} => pc # "raised" /\ err = ""
    /\ "sarima" \in warned => forecast_results.sarima.empty
    /\ "prophet" \in warned => forecast_results.prophet.empty
    /\ ~forecast_results.ensemble.empty =>
           ~forecast_results.sarima.empty /\ ~forecast_results.prophet.empty
    /\ (ForecastReturned /\ warned \cap {"sarima", "prophet"} # {}) =>
           /\ forecast_results.ensemble.empty
           /\ forecast_results.ensemble.simple_ensemble = <<>>
           /\ forecast_results.ensemble.weighted_ensemble = <<>>
           /\ best_model.forecaster = ""

\* execute returned after the seasonal model raised and the additive model
\* delivered a forecast.
C13_Witness ==
    /\ ForecastReturned
    /\ "sarima" \in warned
    /\ "prophet" \notin warned
    /\ ~forecast_results.prophet.empty
    /\ Len(forecast_results.prophet.forecast) = Len(test)
    /\ forecast_results.ensemble.empty

\* C14, as claimed: once execute has returned, the key of a model whose fit
\* failed is absent from the results, and so is the ensemble key.
C14_FailedKeyAbsent ==
    ForecastReturned =>
        /\ "sarima" \in warned => ~forecast_results.sarima.present
        /\ "prophet" \in warned => ~forecast_results.prophet.present
        /\ warned \cap {"sarima", "prophet"} # {} => ~forecast_results.ensemble.present

\* C14, amended: once execute has returned, the key of a model whose fit
\* failed is present and holds the empty result; the ensemble key is present
\* exactly when both model keys are (both libraries available), and holds the
\* empty result when a fit failed; a model key is absent only when its
\* library is unavailable.
C14_FailedKeyEmpty ==
    ForecastReturned =>
        /\ "sarima" \in warned =>
               forecast_results.sarima.present /\ forecast_results.sarima.empty
        /\ "prophet" \in warned =>
               forecast_results.prophet.present /\ forecast_results.prophet.empty
        /\ forecast_results.sarima.present <=> available.statsmodels
        /\ forecast_results.prophet.present <=> available.prophet
        /\ forecast_results.ensemble.present
               <=> (available.statsmodels /\ available.prophet)
        /\ (forecast_results.ensemble.present
            /\ warned \cap {"sarima", "prophet"} # {}) =>
               forecast_results.ensemble.empty

\* execute returned after the additive model raised: its key and the
\* ensemble key are set, both to the empty result.
C14_Witness ==
    /\ ForecastReturned
    /\ "prophet" \in warned
    /\ ~forecast_results.sarima.empty
    /\ forecast_results.prophet.present
    /\ forecast_results.prophet.empty
    /\ forecast_results.ensemble.present
    /\ forecast_results.ensemble.empty

\* (mape + 0.001) for the closed form of the weights.
Shifted(mape) == RatAdd(mape, [num |-> 1, den |-> 1000])

\* C15: whenever an ensemble was built, the two normalized weights the
\* code derives from the models' MAPEs are each strictly between 0 and 1,
\* sum to 1, equal (1 / (MAPE_i + 0.001)) over the sum of both such terms
\* (that is, the other model's MAPE + 0.001 over the sum of both), also when
\* a MAPE is 0, and every weighted forecast is the models' forecasts
\* combined with these weights.
C15_WeightsNormalized ==
    ~forecast_results.ensemble.empty =>
        LET ms == forecast_results.sarima.metrics.mape
            mp == forecast_results.prophet.metrics.mape
            w == NormalizedWeights(ms, mp)
            both == RatAdd(Shifted(ms), Shifted(mp))
            weighted == forecast_results.ensemble.weighted_ensemble
        IN  /\ RatLess(RatOfInt(0), w.sarima) /\ RatLess(w.sarima, RatOfInt(1))
            /\ RatLess(RatOfInt(0), w.prophet) /\ RatLess(w.prophet, RatOfInt(1))
            /\ RatAdd(w.sarima, w.prophet) = RatOfInt(1)
            /\ w.sarima = RatDiv(Shifted(mp), both)
            /\ w.prophet = RatDiv(Shifted(ms), both)
            /\ Len(weighted) = Len(test)
            /\ \A k \in 1..Len(weighted) :
                   weighted[k].yhat =
                       RatAdd(RatMul(forecast_results.sarima.forecast[k].yhat,
                                     RatDiv(Shifted(mp), both)),
                              RatMul(forecast_results.prophet.forecast[k].yhat,
                                     RatDiv(Shifted(ms), both)))

\* An ensemble of a model with a MAPE of 0 and one with a MAPE of 100.
C15_Witness ==
    /\ ~forecast_results.ensemble.empty
    /\ forecast_results.sarima.metrics.mape = RatOfInt(0)
    /\ forecast_results.prophet.metrics.mape = RatOfInt(100)
    /\ forecast_results.ensemble.weighted_ensemble[1].yhat
           = [num |-> 500015, den |-> 50001]

\* The months after the last month of the full series, h of them.
BeyondSeries(h) == [k \in 1..h |-> ts_data[Len(ts_data)].month + k]

\* C16: every non-empty model result has a forecast for exactly the test
\* months, in order, and a future_forecast of forecast_horizon values for
\* the months that follow the last month of the full series, none of them
\* a test month.
C16_FutureBeyondSeries ==
    \A r \in {forecast_results.sarima, forecast_results.prophet} :
        ~r.empty =>
            /\ r.index = "dates"
            /\ MonthsOf(r.forecast) = MonthsOf(test)
            /\ Len(r.future_forecast) = forecast_horizon
            /\ MonthsOf(r.future_forecast) = BeyondSeries(forecast_horizon)
            /\ \A k \in 1..Len(r.future_forecast) : \A j \in 1..Len(test) :
                   r.future_forecast[k].month # test[j].month

\* The non-empty single models with a MAPE strictly below the weighted
\* ensemble's.
BetterThanEnsemble ==
    {m \in {"SARIMA", "Prophet"} :
        LET r == IF m = "SARIMA" THEN forecast_results.sarima
                 ELSE forecast_results.prophet
        IN  /\ ~r.empty
            /\ RatLess(r.metrics.mape,
                       forecast_results.ensemble.metrics.weighted.mape)}

\* C17: when the run has printed its two summaries and an ensemble exists,
\* a single model with a strictly lower MAPE than the weighted ensemble
\* makes both summaries name a single model with the minimum MAPE, not the
\* ensemble, as best.
C17_BestIsMinMape ==
    (pc = "main_done" /\ ~forecast_results.ensemble.empty /\ BetterThanEnsemble # {}) =>
        /\ best_model.forecaster \in BetterThanEnsemble
        /\ best_model.main \in BetterThanEnsemble

\* The rows of a category that belong to other products than pid.
RestRows(type, pid) == TypeRows(type) \ OwnRows(pid)

\* C21: for every launch market_expansion is the post-window revenue of the
\* whole category (every brand, the new product included) less the
\* pre-window revenue of the whole category less new_product_revenue; it is
\* not floored, and it is negative whenever the other products of the
\* category sold less in the post window than in the pre window.
C21_MarketExpansion ==
    SovAnalyzed =>
        \A i \in 1..Len(launches) :
            LET launch == launches[i]
                rec == SovByLaunch[launch.product_id]
                lo == PreLo(launch, window_months)
                hi == PostHi(launch, window_months)
                rest == RestRows(launch.type, launch.product_id)
                rest_pre == RevenueIn(rest, lo, launch.launch_date)
                rest_post == RevenueIn(rest, launch.launch_date, hi)
                own_pre == RevenueIn(OwnRows(launch.product_id), lo, launch.launch_date)
                own_post == RevenueIn(OwnRows(launch.product_id), launch.launch_date, hi)
            IN  /\ rec.market_expansion =
                       (rest_post + own_post) - (rest_pre + own_pre)
                       - rec.new_product_revenue
                /\ rest_post < rest_pre => rec.market_expansion < 0

\* Product 2 launches and earns 10 in its post window while product 3, the
\* rest of the category, falls from 20 to 10: market_expansion is -10.
C21_Witness ==
    /\ SovAnalyzed
    /\ launches # <<>>
    /\ launches[1].product_id = 2
    /\ SovByLaunch[2].new_product_revenue = 10
    /\ RevenueIn(RestRows(launches[1].type, 2),
                 PreLo(launches[1], window_months), launches[1].launch_date) = 20
    /\ RevenueIn(RestRows(launches[1].type, 2), launches[1].launch_date,
                 PostHi(launches[1], window_months)) = 10
    /\ SovByLaunch[2].market_expansion = -10

\* pct is the percentage that part is of total.
IsPercentOf(pct, part, total) == pct.num * total = part * 100 * pct.den

\* C22: for every launch each of cannibalization_pct, competitor_pct and
\* expansion_pct is its revenue component divided by new_product_revenue
\* times 100, all three are 0 when new_product_revenue is 0, and the
\* analysis raises nothing; the three are not rescaled to add up to 100.
C22_BreakdownPercentages ==
    SovAnalyzed =>
        /\ err = ""
        /\ \A i \in 1..Len(launches) :
               LET rec == SovByLaunch[launches[i].product_id]
                   total == rec.new_product_revenue
                   pct == rec.sov_breakdown
               IN  IF total = 0
                   THEN /\ pct.cannibalization_pct = RatOfInt(0)
                        /\ pct.competitor_pct = RatOfInt(0)
                        /\ pct.expansion_pct = RatOfInt(0)
                   ELSE /\ IsPercentOf(pct.cannibalization_pct,
                                       rec.cannibalized_revenue, total)
                        /\ IsPercentOf(pct.competitor_pct,
                                       rec.competitor_loss, total)
                        /\ IsPercentOf(pct.expansion_pct,
                                       rec.market_expansion, total)

\* Product 2 earns 10 while its competitor falls from 20 to 10: the
\* percentages are 0, 100 and -100 and add up to 0, not to 100.
C22_Witness ==
    /\ SovAnalyzed
    /\ launches # <<>>
    /\ launches[1].product_id = 2
    /\ SovByLaunch[2].new_product_revenue = 10
    /\ SovByLaunch[2].competitor_loss = 10
    /\ SovByLaunch[2].sov_breakdown.cannibalization_pct = RatOfInt(0)
    /\ SovByLaunch[2].sov_breakdown.competitor_pct = RatOfInt(100)
    /\ SovByLaunch[2].sov_breakdown.expansion_pct = RatOfInt(-100)

\* launch_performance has been computed.
LaunchesScored == pc \in {"nl_select", "nl_targets", "main_branch"}

\* The revenue of a product's rows dated on or after a date, and in the two
\* three-month windows after a launch date.
RevenueFrom(pid, lo) == RevenueOf({i \in OwnRows(pid) : df[i].date >= lo})
First3m(pid, launch_date) ==
    RevenueIn(OwnRows(pid), launch_date, launch_date + 3 * MonthLen)
Next3m(pid, launch_date) ==
    RevenueIn(OwnRows(pid), launch_date + 3 * MonthLen, launch_date + 6 * MonthLen)

\* C23: for every row of launch_performance, with first = revenue of the
\* product in [launch, launch + 3 months) and next = its revenue in
\* [launch + 3 months, launch + 6 months), growth_rate_pct is
\* (next - first) / first * 100, or 0 when first is 0, and performance_score
\* is total post-launch revenue * (1 + growth_rate_pct / 100).
C23_GrowthAndScore ==
    LaunchesScored =>
        \A k \in 1..Len(nl_results.launch_performance) :
            LET row == nl_results.launch_performance[k]
                first == First3m(row.product_id, row.launch_date)
                next == Next3m(row.product_id, row.launch_date)
                total == RevenueFrom(row.product_id, row.launch_date)
                g == row.growth_rate_pct
                score == row.performance_score
            IN  /\ row.total_revenue = total
                /\ first = 0 => g = RatOfInt(0)
                /\ first > 0 => g.num * first = (next - first) * 100 * g.den
                /\ score.num * 100 * g.den
                       = total * (100 * g.den + g.num) * score.den

\* A launch that earns 10 in its first three months and 20 in the next
\* three: growth 100 percent, score 60 on a revenue of 30.
C23_Witness ==
    /\ LaunchesScored
    /\ \E k \in 1..Len(nl_results.launch_performance) :
           LET row == nl_results.launch_performance[k]
           IN  /\ First3m(row.product_id, row.launch_date) = 10
               /\ Next3m(row.product_id, row.launch_date) = 20
               /\ row.total_revenue = 30
               /\ row.growth_rate_pct = RatOfInt(100)
               /\ row.performance_score = RatOfInt(60)

\* C24: launch_performance ranks candidates of equal performance_score by
\* ascending product_id, so that the ranked table and the rows taken by
\* top_n do not depend on the order of the product and sales rows.
C24_TiesByProductId ==
    LaunchesScored =>
        \A i, j \in 1..Len(nl_results.launch_performance) :
            LET a == nl_results.launch_performance[i]
                b == nl_results.launch_performance[j]
            IN  (i < j /\ a.performance_score = b.performance_score)
                    => a.product_id < b.product_id

\* The scored row earned in its first three months and nothing in the next
\* three.
StalledLaunch(row) ==
    /\ First3m(row.product_id, row.launch_date) > 0
    /\ Next3m(row.product_id, row.launch_date) = 0

\* C27: a scored launch with revenue in its first three months and none in
\* months 3 to 6 has growth_rate_pct -100 and performance_score 0 whatever
\* its total revenue, and is never ranked above a launch with a positive
\* score; no performance_score is negative.
C27_StalledLaunchScoresZero ==
    LaunchesScored =>
        LET perf == nl_results.launch_performance
        IN  /\ \A k \in 1..Len(perf) :
                   /\ perf[k].performance_score.num >= 0
                   /\ StalledLaunch(perf[k]) =>
                          /\ perf[k].growth_rate_pct = RatOfInt(-100)
                          /\ perf[k].performance_score = RatOfInt(0)
            /\ \A i, j \in 1..Len(perf) :
                   (StalledLaunch(perf[i]) /\ perf[j].performance_score.num > 0)
                       => j < i

\* Product 1 earns 10 at its launch, nothing in months 3 to 6 and 20 after
\* them: its score is 0 on a revenue of 30, and it is ranked below product
\* 2, whose score is positive.
C27_Witness ==
    /\ LaunchesScored
    /\ Len(nl_results.launch_performance) = 2
    /\ nl_results.launch_performance[1].product_id = 2
    /\ nl_results.launch_performance[1].performance_score.num > 0
    /\ nl_results.launch_performance[2].product_id = 1
    /\ StalledLaunch(nl_results.launch_performance[2])
    /\ nl_results.launch_performance[2].total_revenue = 30
    /\ nl_results.launch_performance[2].growth_rate_pct = RatOfInt(-100)
    /\ nl_results.launch_performance[2].performance_score = RatOfInt(0)

\* Where the run stands: inside one of the three stages of Phase 4.
InLaunchStage == pc \in {"nl_identify", "nl_score", "nl_select", "nl_targets"}
InSovStage == pc \in {"sov_start", "sov_breakdown", "sov_tests", "sov_done"}
InImpactStage == pc \in {"impact_start", "impact_category", "impact_brand",
                          "impact_classify", "impact_done"}

\* SOVAnalyzer.execute has returned its three results for the launch table.
SovReturned ==
    /\ DOMAIN sov_results = {"sov_by_launch", "sov_breakdown", "significance_tests"}
    /\ DOMAIN sov_results.sov_by_launch = RowIds(launches)
    /\ Len(sov_results.sov_breakdown) = Cardinality(RowIds(launches))
    /\ DOMAIN sov_results.significance_tests = RowIds(launches)

\* C25: the stages of Phase 4 run in the order launch identification, SOV
\* analysis, portfolio impact. While launches are identified neither later
\* stage has a result; the SOV analysis runs only on the finished, non-empty
\* top-launch table and before any portfolio impact result exists; the
\* portfolio impact runs only on that table and the returned SOV results;
\* and a run that ends with an empty top-launch table has skipped both, with
\* empty results.
C25_Phase4Order ==
    /\ InLaunchStage =>
           sov_results = NoSovResults /\ impact_results = NoImpactResults
    /\ (InSovStage \/ InImpactStage) =>
           /\ nl_results.top_n # -1
           /\ launches = nl_results.top_launches
           /\ Len(launches) > 0
    /\ (InSovStage /\ pc # "sov_done") => impact_results = NoImpactResults
    /\ (pc = "sov_done" \/ InImpactStage) => SovReturned
    /\ pc \in {"done", "main_done"} =>
           IF Len(nl_results.top_launches) = 0
           THEN sov_results = <<>> /\ impact_results = <<>>
           ELSE /\ launches = nl_results.top_launches
                /\ SovReturned
                /\ Len(impact_results.launch_classification) > 0

\* A run that went through all three stages on two top launches.
C25_Witness ==
    /\ pc = "done"
    /\ Len(nl_results.top_launches) = 2
    /\ launches = nl_results.top_launches
    /\ SovReturned
    /\ Len(impact_results.portfolio_impact) = 2

\* C26: no stage changes a table it was given. The product table and the
\* sales table are never changed; the launch table and the launch results
\* are not changed by the SOV analysis or the portfolio impact; the SOV
\* results are not changed by the portfolio impact.
C26_InputsUnchanged ==
    [][/\ products' = products
       /\ df' = df
       /\ (InSovStage \/ InImpactStage) =>
              launches' = launches /\ nl_results' = nl_results
       /\ InImpactStage => sov_results' = sov_results]_vars

\* The three stages have run on a sales table of three rows and a product
\* table that is not in launch_date order.
C26_Witness ==
    /\ pc = "done"
    /\ Len(df) = 3
    /\ products[1].launch_date < products[2].launch_date
    /\ launches # <<>>
    /\ Len(impact_results.launch_classification) = Len(launches)

\* The three impact tables have been computed.
BrandComputed == pc \in {"impact_classify", "impact_done"}

\* The sums of the columns of a group table (category or brand).
GroupNet(table) == SumFn([i \in 1..Len(table) |-> table[i].net_impact])
GroupNew(table) == SumFn([i \in 1..Len(table) |-> table[i].total_new_revenue])
GroupLost(table) == SumFn([i \in 1..Len(table) |-> table[i].total_lost_revenue])
GroupLaunches(table) == SumFn([i \in 1..Len(table) |-> table[i].num_launches])

\* C28: net_impact summed over the category rows, over the brand rows and
\* over the per-launch rows is one number, and so are total new revenue and
\* total lost revenue; a launch without an SOV record adds nothing to them
\* and has no per-launch row, but is counted in num_launches of its
\* category and of its brand.
C28_TotalsAgree ==
    BrandComputed =>
        LET per_launch == impact_results.portfolio_impact
            by_category == impact_results.category_impact
            by_brand == impact_results.brand_impact
            net == SumFn([i \in 1..Len(per_launch) |-> per_launch[i].net_impact])
            new == SumFn([i \in 1..Len(per_launch) |->
                             per_launch[i].new_product_revenue])
            lost == SumFn([i \in 1..Len(per_launch) |-> per_launch[i].lost_revenue])
        IN  /\ GroupNet(by_category) = net /\ GroupNet(by_brand) = net
            /\ GroupNew(by_category) = new /\ GroupNew(by_brand) = new
            /\ GroupLost(by_category) = lost /\ GroupLost(by_brand) = lost
            /\ GroupLaunches(by_category) = Len(launches)
            /\ GroupLaunches(by_brand) = Len(launches)
            /\ Len(per_launch) =
                   Cardinality({i \in 1..Len(launches) :
                                   launches[i].product_id \in DOMAIN SovByLaunch})

\* Three launches in two categories and two brands, one of them without an
\* SOV record: two per-launch rows, three launches counted, and the same
\* net impact of 900 at every level.
C28_Witness ==
    /\ BrandComputed
    /\ Len(launches) = 3
    /\ Len(impact_results.portfolio_impact) = 2
    /\ Len(impact_results.category_impact) = 2
    /\ Len(impact_results.brand_impact) = 2
    /\ GroupLaunches(impact_results.category_impact) = 3
    /\ GroupNet(impact_results.category_impact) = 900
    /\ GroupNet(impact_results.brand_impact) = 900
    /\ GroupNew(impact_results.brand_impact) = 2000
    /\ GroupLost(impact_results.brand_impact) = 1100

\* a <= b and a < b for two fractions, by the sign of their difference.
RatAtMost(a, b) == RatSub(b, a).num >= 0
RatBelow(a, b) == RatSub(b, a).num > 0

\* x is strictly nearer to a than to b.
Nearer(x, a, b) == RatBelow(RatAbs(RatSub(x, a)), RatAbs(RatSub(x, b)))

\* C29: whenever an ensemble was built, at every test month the weighted
\* forecast lies between the SARIMA and the Prophet forecast; the model with
\* the strictly lower MAPE has the strictly larger weight, so that where
\* the two forecasts differ the weighted one is nearer to that model's; and
\* with equal MAPEs the weighted forecast is the simple ensemble, the mean
\* of the two.
C29_ConvexCombination ==
    ~forecast_results.ensemble.empty =>
        LET ms == forecast_results.sarima.metrics.mape
            mp == forecast_results.prophet.metrics.mape
            w == NormalizedWeights(ms, mp)
            weighted == forecast_results.ensemble.weighted_ensemble
            simple == forecast_results.ensemble.simple_ensemble
        IN  /\ RatBelow(ms, mp) => RatBelow(w.prophet, w.sarima)
            /\ RatBelow(mp, ms) => RatBelow(w.sarima, w.prophet)
            /\ \A k \in 1..Len(weighted) :
                   LET s == forecast_results.sarima.forecast[k].yhat
                       p == forecast_results.prophet.forecast[k].yhat
                       x == weighted[k].yhat
                   IN  /\ \/ RatAtMost(s, x) /\ RatAtMost(x, p)
                          \/ RatAtMost(p, x) /\ RatAtMost(x, s)
                       /\ (RatBelow(ms, mp) /\ s # p) => Nearer(x, s, p)
                       /\ (RatBelow(mp, ms) /\ s # p) => Nearer(x, p, s)
                       /\ ms = mp =>
                              /\ x = simple[k].yhat
                              /\ x = RatDivInt(RatAdd(s, p), 2)

\* The month sold 15, SARIMA forecast 10 and Prophet 20: equal MAPEs of a
\* third, and both ensembles forecast 15.
C29_Witness ==
    /\ ~forecast_results.ensemble.empty
    /\ forecast_results.sarima.forecast[1].yhat = RatOfInt(10)
    /\ forecast_results.prophet.forecast[1].yhat = RatOfInt(20)
    /\ forecast_results.sarima.metrics.mape = [num |-> 100, den |-> 3]
    /\ forecast_results.prophet.metrics.mape = [num |-> 100, den |-> 3]
    /\ forecast_results.ensemble.weighted_ensemble[1].yhat = RatOfInt(15)
    /\ forecast_results.ensemble.simple_ensemble[1].yhat = RatOfInt(15)

\* How far the run has got past the steps of the SOV analysis and into the
\* portfolio impact.
SovRecordsMade == pc \in {"sov_breakdown", "sov_tests", "sov_done"} \/ InImpactStage
SovBreakdownMade == pc \in {"sov_tests", "sov_done"} \/ InImpactStage
SovTestsMade == pc = "sov_done" \/ InImpactStage
ImpactRowsMade == pc \in {"impact_category", "impact_brand", "impact_classify",
                           "impact_done"}

\* C30: on a non-empty launch table with distinct product_ids the SOV
\* analysis makes exactly one record per launch under the launch's
\* product_id, one sov_breakdown row per launch and one significance_tests
\* entry per launch, also for a launch without revenue in its post window;
\* the portfolio impact then has exactly one row per launch.
C30_OnePerLaunch ==
    LET ids == RowIds(launches)
    IN  /\ SovRecordsMade =>
               /\ Len(launches) > 0
               /\ Cardinality(ids) = Len(launches)
               /\ DOMAIN sov_results.sov_by_launch = ids
               /\ \A pid \in ids :
                      sov_results.sov_by_launch[pid].new_product_id = pid
        /\ SovBreakdownMade =>
               /\ Len(sov_results.sov_breakdown) = Len(launches)
               /\ \A k \in 1..Len(launches) :
                      sov_results.sov_breakdown[k].product_id
                          = launches[k].product_id
        /\ SovTestsMade => DOMAIN sov_results.significance_tests = ids
        /\ ImpactRowsMade =>
               /\ Len(impact_results.portfolio_impact) = Len(launches)
               /\ RowIds(impact_results.portfolio_impact) = ids

\* Two launches, one of them without revenue in its post window: two
\* records, two breakdown rows, two test entries, two impact rows.
C30_Witness ==
    /\ pc = "impact_done"
    /\ Len(launches) = 2
    /\ \E pid \in RowIds(launches) :
           sov_results.sov_by_launch[pid].new_product_revenue = 0
    /\ Len(sov_results.sov_breakdown) = 2
    /\ DOMAIN sov_results.significance_tests = RowIds(launches)
    /\ Len(impact_results.portfolio_impact) = 2

====
